---- MODULE Spec2Model ----
(***************************************************************************)
(* Model of the Enterprise Contextual Compression Engine                   *)
(* (compression_engine.py): DocumentChunker, CriticalContentExtractor,     *)
(* HierarchicalCompressor, TraceabilityMapper and the orchestrating        *)
(* EnterpriseCompressionEngine.process.                                    *)
(*                                                                         *)
(* Text is a TLA+ string; offsets are 0-based as in Python, so the         *)
(* character at Python index i is SubSeq(s, i+1, i+1).  The regular        *)
(* expressions of the source are written as syntax trees and run by a      *)
(* backtracking matcher that enumerates match ends in the priority order   *)
(* of Python's re module (alternatives left to right, greedy repetition).  *)
(***************************************************************************)
EXTENDS Integers, Sequences, FiniteSets, TLC

(***************************************************************************)
(* Characters                                                              *)
(***************************************************************************)
UpperAlpha == "ABCDEFGHIJKLMNOPQRSTUVWXYZ"
LowerAlpha == "abcdefghijklmnopqrstuvwxyz"
DigitChars == "0123456789"

CharsOf(str) == {SubSeq(str, k, k) : k \in 1..Len(str)}

UpperSet == CharsOf(UpperAlpha)
LowerSet == CharsOf(LowerAlpha)
DigitSet == CharsOf(DigitChars)

\* \w of the re module, restricted to ASCII text
WordSet == UpperSet \cup LowerSet \cup DigitSet \cup {"_"}

\* \s of the re module and the characters str.strip() removes (ASCII)
SpaceSet == {" ", "\t", "\n", "\r", "\f"}

\* str.lower() / str.upper() on one character
ToLowerFn == [c \in UpperSet |->
                LET k == CHOOSE k \in 1..26 : SubSeq(UpperAlpha, k, k) = c
                IN  SubSeq(LowerAlpha, k, k)]
ToUpperFn == [c \in LowerSet |->
                LET k == CHOOSE k \in 1..26 : SubSeq(LowerAlpha, k, k) = c
                IN  SubSeq(UpperAlpha, k, k)]
LowerChar(c) == IF c \in UpperSet THEN ToLowerFn[c] ELSE c
UpperChar(c) == IF c \in LowerSet THEN ToUpperFn[c] ELSE c

(***************************************************************************)
(* Python str primitives                                                   *)
(***************************************************************************)
\* s[i] (0-based)
Ch(s, i) == SubSeq(s, i + 1, i + 1)

\* s[a:b] for 0 <= a, b (clamped to the string as Python does)
Slice(s, a, b) ==
    LET bb == IF b > Len(s) THEN Len(s) ELSE b
    IN  IF a >= bb THEN "" ELSE SubSeq(s, a + 1, bb)

\* list[:n]
Take(list, n) == SubSeq(list, 1, IF n > Len(list) THEN Len(list) ELSE n)

SetMin(set) == CHOOSE x \in set : \A y \in set : x <= y
SetMax(set) == CHOOSE x \in set : \A y \in set : x >= y

RECURSIVE LowerRange(_, _, _)
\* the characters a..b (1-based) of s in lowercase, by halves
LowerRange(s, a, b) ==
    IF a > b THEN ""
    ELSE IF a = b THEN LowerChar(SubSeq(s, a, a))
    ELSE LET m == (a + b) \div 2
         IN  LowerRange(s, a, m) \o LowerRange(s, m + 1, b)
\* str.lower()
Lower(s) == LowerRange(s, 1, Len(s))

\* the indices of s holding a character that is not whitespace
NonSpaceAt(s) == {i \in 0..(Len(s) - 1) : Ch(s, i) \notin SpaceSet}
\* str.strip()
Strip(s) ==
    LET keep == NonSpaceAt(s)
    IN  IF keep = {} THEN "" ELSE Slice(s, SetMin(keep), SetMax(keep) + 1)

\* str.find(c, i): first index >= i holding c, or -1
FindChar(s, c, i) ==
    LET hits == {k \in i..(Len(s) - 1) : Ch(s, k) = c}
    IN  IF hits = {} THEN -1 ELSE SetMin(hits)

\* str.rfind(c, 0, e): last index < e holding c, or -1
RFindChar(s, c, e) ==
    LET hits == {k \in 0..((IF e > Len(s) THEN Len(s) ELSE e) - 1) : Ch(s, k) = c}
    IN  IF hits = {} THEN -1 ELSE SetMax(hits)

RECURSIVE SplitCharFrom(_, _, _)
SplitCharFrom(s, c, i) ==
    LET k == FindChar(s, c, i)
    IN  IF k = -1 THEN <<Slice(s, i, Len(s))>>
        ELSE <<Slice(s, i, k)>> \o SplitCharFrom(s, c, k + 1)
\* str.split(c) for a one-character separator
SplitChar(s, c) == SplitCharFrom(s, c, 0)

RECURSIVE JoinFrom(_, _, _)
JoinFrom(parts, sep, k) ==
    IF k > Len(parts) THEN ""
    ELSE IF k = Len(parts) THEN parts[k]
    ELSE parts[k] \o sep \o JoinFrom(parts, sep, k + 1)
\* sep.join(parts)
Join(parts, sep) == JoinFrom(parts, sep, 1)

\* len(str.split()): number of whitespace-delimited tokens, counted by the
\* indices at which a token starts
CountWords(s) ==
    Cardinality({i \in NonSpaceAt(s) : i = 0 \/ Ch(s, i - 1) \in SpaceSet})

(***************************************************************************)
(* Regular expressions (re module)                                         *)
(***************************************************************************)
Unbounded == 1000000

Lit(str)          == [op |-> "lit", s |-> str, ls |-> Lower(str)]
Cls(set)          == [op |-> "cls", set |-> set,
                      iset |-> set \cup {LowerChar(c) : c \in set}
                                   \cup {UpperChar(c) : c \in set}]
Cat(parts)        == [op |-> "cat", parts |-> parts]
Alt(parts)        == [op |-> "alt", parts |-> parts]
Rep(r, lo, hi)    == [op |-> "rep", sub |-> r, lo |-> lo, hi |-> hi]
Opt(r)            == Rep(r, 0, 1)
Star(r)           == Rep(r, 0, Unbounded)
Plus(r)           == Rep(r, 1, Unbounded)
WB                == [op |-> "wb"]
BOL               == [op |-> "bol"]
EOL               == [op |-> "eol"]
Behind(set)       == [op |-> "behind", set |-> set]

RECURSIVE WordsFrom(_, _)
WordsFrom(ws, k) ==
    IF k > Len(ws) THEN <<>> ELSE <<Lit(ws[k])>> \o WordsFrom(ws, k + 1)
\* (?:w1|w2|...)
AnyOf(ws) == Alt(WordsFrom(ws, 1))

D  == Cls(DigitSet)
S  == Cls(SpaceSet)
W  == Cls(WordSet)

\* text prepared for matching: the string, its lowercase form, its length
Text(s) == [s |-> s, l |-> Lower(s), n |-> Len(s)]

IsWordAt(t, i) == i >= 0 /\ i < t.n /\ Ch(t.s, i) \in WordSet

RECURSIVE Ends(_, _, _, _)
RECURSIVE CatEnds(_, _, _, _, _)
RECURSIVE AltEnds(_, _, _, _, _)
RECURSIVE RepEnds(_, _, _, _, _)
RECURSIVE RepOver(_, _, _, _, _, _)
RECURSIVE CatOver(_, _, _, _, _, _)

\* every offset at which r can stop matching when started at offset i,
\* in the order the backtracking matcher tries them; ic is re.IGNORECASE
Ends(r, t, i, ic) ==
    CASE r.op = "lit" ->
           LET n == Len(r.s)
           IN  IF i + n <= t.n
                  /\ (IF ic THEN SubSeq(t.l, i + 1, i + n) = r.ls
                            ELSE SubSeq(t.s, i + 1, i + n) = r.s)
               THEN <<i + n>> ELSE <<>>
      [] r.op = "cls" ->
           IF i < t.n /\ Ch(t.s, i) \in (IF ic THEN r.iset ELSE r.set)
           THEN <<i + 1>> ELSE <<>>
      [] r.op = "cat" -> CatEnds(r.parts, 1, t, i, ic)
      [] r.op = "alt" -> AltEnds(r.parts, 1, t, i, ic)
      [] r.op = "rep" -> RepEnds(r, t, i, ic, 0)
      [] r.op = "wb" ->
           IF IsWordAt(t, i - 1) # IsWordAt(t, i) THEN <<i>> ELSE <<>>
      [] r.op = "bol" -> IF i = 0 THEN <<i>> ELSE <<>>
      [] r.op = "eol" ->
           IF i = t.n \/ (i = t.n - 1 /\ Ch(t.s, i) = "\n") THEN <<i>> ELSE <<>>
      [] r.op = "behind" ->
           IF i > 0 /\ Ch(t.s, i - 1) \in r.set THEN <<i>> ELSE <<>>

CatOver(parts, k, t, es, j, ic) ==
    IF j > Len(es) THEN <<>>
    ELSE CatEnds(parts, k + 1, t, es[j], ic) \o CatOver(parts, k, t, es, j + 1, ic)

CatEnds(parts, k, t, i, ic) ==
    IF k > Len(parts) THEN <<i>>
    ELSE CatOver(parts, k, t, Ends(parts[k], t, i, ic), 1, ic)

AltEnds(parts, k, t, i, ic) ==
    IF k > Len(parts) THEN <<>>
    ELSE Ends(parts[k], t, i, ic) \o AltEnds(parts, k + 1, t, i, ic)

RepOver(r, t, es, j, ic, cnt) ==
    IF j > Len(es) THEN <<>>
    ELSE RepEnds(r, t, es[j], ic, cnt) \o RepOver(r, t, es, j + 1, ic, cnt)

\* greedy repetition: one more iteration first, stopping here last
RepEnds(r, t, i, ic, cnt) ==
    LET more == IF cnt < r.hi
                THEN LET es == Ends(r.sub, t, i, ic)
                     IN  RepOver(r, t, SelectSeq(es, LAMBDA e : e > i), 1, ic, cnt + 1)
                ELSE <<>>
    IN  more \o (IF cnt >= r.lo THEN <<i>> ELSE <<>>)

NoMatch == <<-1, -1>>

\* pattern.match(s, i): the match starting at i as <<start, end>>, or NoMatch
MatchAt(r, t, i, ic) ==
    LET es == Ends(r, t, i, ic)
    IN  IF es = <<>> THEN NoMatch ELSE <<i, es[1]>>

\* the offsets at which a match of r starts
StartsOf(r, t, ic) == {i \in 0..t.n : Ends(r, t, i, ic) # <<>>}

\* re.search(pattern, s) is not None
Matches(r, s, ic) == LET t == Text(s) IN \E i \in 0..t.n : Ends(r, t, i, ic) # <<>>

\* re.match(pattern, s) is not None
MatchesAtStart(r, s, ic) == MatchAt(r, Text(s), 0, ic) # NoMatch

RECURSIVE FindIterFrom(_, _, _, _, _)
\* the scan resumes at the end of each match; starts holds every offset at
\* which the pattern matches
FindIterFrom(r, t, starts, i, ic) ==
    LET later == {j \in starts : j >= i}
    IN  IF later = {} THEN <<>>
        ELSE LET m == MatchAt(r, t, SetMin(later), ic)
             IN  <<m>> \o FindIterFrom(r, t, later,
                                       (IF m[2] > m[1] THEN m[2] ELSE m[2] + 1), ic)
\* re.finditer(pattern, s): the non-overlapping matches as <<start, end>>
FindIter(r, s, ic) == LET t == Text(s) IN FindIterFrom(r, t, StartsOf(r, t, ic), 0, ic)

RECURSIVE SpansToStrings(_, _, _)
SpansToStrings(s, ms, k) ==
    IF k > Len(ms) THEN <<>>
    ELSE <<Slice(s, ms[k][1], ms[k][2])>> \o SpansToStrings(s, ms, k + 1)
\* re.findall(pattern, s) for a pattern without capture groups
FindAll(r, s) == SpansToStrings(s, FindIter(r, s, FALSE), 1)

RECURSIVE SplitPieces(_, _, _, _)
SplitPieces(s, ms, k, from) ==
    IF k > Len(ms) THEN <<Slice(s, from, Len(s))>>
    ELSE <<Slice(s, from, ms[k][1])>> \o SplitPieces(s, ms, k + 1, ms[k][2])
\* re.split(pattern, s) for a pattern without capture groups
Split(r, s) == SplitPieces(s, FindIter(r, s, FALSE), 1, 0)

RECURSIVE SubPieces(_, _, _, _, _)
SubPieces(s, ms, k, from, repl) ==
    IF k > Len(ms) THEN Slice(s, from, Len(s))
    ELSE Slice(s, from, ms[k][1]) \o repl \o SubPieces(s, ms, k + 1, ms[k][2], repl)
\* re.sub(pattern, repl, s)
Sub(r, repl, s) == SubPieces(s, FindIter(r, s, FALSE), 1, 0, repl)

(***************************************************************************)
(* DocumentChunker                                                         *)
(***************************************************************************)
Strategies == {"paragraph", "section", "sentence", "fixed_size"}

\* default of chunk_document's max_chunk_size parameter
DefaultMaxChunkSize == 1000

Chunk(id, content, start, end) ==
    [chunk_id |-> id, content |-> content, start_pos |-> start, end_pos |-> end]

ChunkId(n) == "chunk_" \o ToString(n)

\* r'\n\s*\n'
ParagraphSep == Cat(<<Lit("\n"), Star(S), Lit("\n")>>)

\* r'(?<=[.!?])\s+'
SentenceSep == Cat(<<Behind({".", "!", "?"}), Plus(S)>>)

\* r'^(#{1,6}\s|[A-Z\s]{10,}$|\d+\.\s+[A-Z]|SECTION|ARTICLE)'
header_pattern ==
    Cat(<<BOL,
          Alt(<<Cat(<<Rep(Lit("#"), 1, 6), S>>),
                Cat(<<Rep(Cls(UpperSet \cup SpaceSet), 10, Unbounded), EOL>>),
                Cat(<<Plus(D), Lit("."), Plus(S), Cls(UpperSet)>>),
                Lit("SECTION"),
                Lit("ARTICLE")>>)>>)

RECURSIVE EnumerateStripped(_, _, _, _)
\* the loop shared by _chunk_by_paragraph and _chunk_by_sentence: pieces are
\* trimmed, empty ones skipped, the id comes from the piece's enumerate index
EnumerateStripped(pieces, idx, current_pos, chunks) ==
    IF idx >= Len(pieces) THEN chunks
    ELSE LET piece == Strip(pieces[idx + 1])
         IN  IF piece = ""
             THEN EnumerateStripped(pieces, idx + 1, current_pos, chunks)
             ELSE EnumerateStripped(pieces, idx + 1, current_pos + Len(piece),
                      Append(chunks, Chunk(ChunkId(idx + 1), piece, current_pos,
                                           current_pos + Len(piece))))

_chunk_by_paragraph(text) ==
    EnumerateStripped(Split(ParagraphSep, text), 0, 0, <<>>)

_chunk_by_sentence(text) ==
    EnumerateStripped(Split(SentenceSep, text), 0, 0, <<>>)

\* a section emitted with the position moved past the newline that ended it
FlushSectionCountingNewline(chunks, current_chunk, current_pos, chunk_idx) ==
    LET content == Strip(Join(current_chunk, "\n"))
    IN  IF content # ""
        THEN [chunks |-> Append(chunks, Chunk(ChunkId(chunk_idx), content, current_pos,
                                              current_pos + Len(content))),
              current_pos |-> current_pos + Len(content) + 1,
              chunk_idx |-> chunk_idx + 1]
        ELSE [chunks |-> chunks, current_pos |-> current_pos, chunk_idx |-> chunk_idx]

\* the flush of the accumulated lines: one chunk when their trimmed join is
\* not empty
FlushSection(chunks, current_chunk, current_pos, chunk_idx) ==
    LET content == Strip(Join(current_chunk, "\n"))
    IN  IF content # ""
        THEN [chunks |-> Append(chunks, Chunk(ChunkId(chunk_idx), content, current_pos,
                                              current_pos + Len(content))),
              current_pos |-> current_pos + Len(content),
              chunk_idx |-> chunk_idx + 1]
        ELSE [chunks |-> chunks, current_pos |-> current_pos, chunk_idx |-> chunk_idx]

RECURSIVE SectionLoopWithoutFinalFlush(_, _, _, _, _, _)
\* a loop that returns at the end of the lines without emitting what it holds
SectionLoopWithoutFinalFlush(lines, k, chunks, current_chunk, current_pos, chunk_idx) ==
    IF k > Len(lines) THEN chunks
    ELSE IF MatchesAtStart(header_pattern, Strip(lines[k]), FALSE) /\ current_chunk # <<>>
         THEN LET f == FlushSection(chunks, current_chunk, current_pos, chunk_idx)
              IN  SectionLoopWithoutFinalFlush(lines, k + 1, f.chunks, <<lines[k]>>,
                                               f.current_pos, f.chunk_idx)
         ELSE SectionLoopWithoutFinalFlush(lines, k + 1, chunks,
                                           Append(current_chunk, lines[k]),
                                           current_pos, chunk_idx)

RECURSIVE SectionLoop(_, _, _, _, _, _)
SectionLoop(lines, k, chunks, current_chunk, current_pos, chunk_idx) ==
    IF k > Len(lines)
    THEN IF current_chunk # <<>>
         THEN FlushSection(chunks, current_chunk, current_pos, chunk_idx).chunks
         ELSE chunks
    ELSE IF MatchesAtStart(header_pattern, Strip(lines[k]), FALSE) /\ current_chunk # <<>>
         THEN LET f == FlushSection(chunks, current_chunk, current_pos, chunk_idx)
              IN  SectionLoop(lines, k + 1, f.chunks, <<lines[k]>>, f.current_pos, f.chunk_idx)
         ELSE SectionLoop(lines, k + 1, chunks, Append(current_chunk, lines[k]),
                          current_pos, chunk_idx)

_chunk_by_section(text) ==
    SectionLoop(SplitChar(text, "\n"), 1, <<>>, <<>>, 0, 1)

\* a pass that reads one character more than max_size
FixedSizeChunkWideWindow(text, max_size, current_pos, chunk_idx) ==
    LET window_end  == IF current_pos + max_size + 1 < Len(text)
                       THEN current_pos + max_size + 1 ELSE Len(text)
        window      == Slice(text, current_pos, window_end)
        last_period == RFindChar(window, ".", Len(window))
        end_pos     == IF 2 * last_period > max_size
                       THEN current_pos + last_period + 1 ELSE window_end
        chunk_text  == Slice(text, current_pos, end_pos)
    IN  Chunk(ChunkId(chunk_idx), Strip(chunk_text), current_pos, end_pos)

\* a pass that breaks after the first '.' past the half, not the last
FixedSizeChunkFirstPeriod(text, max_size, current_pos, chunk_idx) ==
    LET window_end  == IF current_pos + max_size < Len(text)
                       THEN current_pos + max_size ELSE Len(text)
        window      == Slice(text, current_pos, window_end)
        periods     == {p \in 0..(Len(window) - 1) :
                            Ch(window, p) = "." /\ 2 * p > max_size}
        end_pos     == IF periods # {}
                       THEN current_pos + SetMin(periods) + 1 ELSE window_end
        chunk_text  == Slice(text, current_pos, end_pos)
    IN  Chunk(ChunkId(chunk_idx), Strip(chunk_text), current_pos, end_pos)

\* one pass of the while loop: the chunk cut at current_pos
FixedSizeChunk(text, max_size, current_pos, chunk_idx) ==
    LET window_end  == IF current_pos + max_size < Len(text)
                       THEN current_pos + max_size ELSE Len(text)
        window      == Slice(text, current_pos, window_end)
        last_period == RFindChar(window, ".", Len(window))
        \* last_period > max_size * 0.5
        end_pos     == IF 2 * last_period > max_size
                       THEN current_pos + last_period + 1 ELSE window_end
        chunk_text  == Slice(text, current_pos, end_pos)
        \* end_pos and chunk_text are computed once, then the chunk is made
    IN  CHOOSE chunk \in {Chunk(ChunkId(chunk_idx), Strip(content), current_pos, end) :
                              end \in {end_pos}, content \in {chunk_text}} : TRUE

RECURSIVE FixedSizeLoop(_, _, _, _, _)
FixedSizeLoop(text, max_size, current_pos, chunk_idx, chunks) ==
    IF ~(current_pos < Len(text)) THEN chunks
    ELSE LET Continue(chunk) ==
                 FixedSizeLoop(text, max_size, chunk.end_pos, chunk_idx + 1,
                               Append(chunks, chunk))
         IN  Continue(FixedSizeChunk(text, max_size, current_pos, chunk_idx))

_chunk_by_fixed_size(text, max_size) == FixedSizeLoop(text, max_size, 0, 1, <<>>)

\* chunk_document with the sentence strategy in its else branch
ChunkDocumentSentenceFallback(chunk_strategy, text, max_chunk_size) ==
    IF chunk_strategy = "paragraph" THEN _chunk_by_paragraph(text)
    ELSE IF chunk_strategy = "section" THEN _chunk_by_section(text)
    ELSE IF chunk_strategy = "fixed_size" THEN _chunk_by_fixed_size(text, max_chunk_size)
    ELSE _chunk_by_sentence(text)

chunk_document(chunk_strategy, text, max_chunk_size) ==
    IF chunk_strategy = "paragraph" THEN _chunk_by_paragraph(text)
    ELSE IF chunk_strategy = "section" THEN _chunk_by_section(text)
    ELSE IF chunk_strategy = "sentence" THEN _chunk_by_sentence(text)
    ELSE IF chunk_strategy = "fixed_size" THEN _chunk_by_fixed_size(text, max_chunk_size)
    ELSE _chunk_by_paragraph(text)

(***************************************************************************)
(* CriticalContentExtractor                                                *)
(***************************************************************************)
OBJECTIVE_FACT         == "objective_fact"
NUMBER_LIMIT           == "number_limit"
DATE_TIMELINE          == "date_timeline"
EXCEPTION_CONDITION    == "exception_condition"
RISK_PENALTY           == "risk_penalty"
COMPLIANCE_REQUIREMENT == "compliance_requirement"

\* confidence is kept in tenths: 10 is 1.0, 8 is 0.8, 6 is 0.6
ExtractedItem(statement, chunk_id, quote, content_type, confidence) ==
    [statement |-> statement, chunk_id |-> chunk_id, quote |-> quote,
     content_type |-> content_type, confidence |-> confidence]

\* \d+(?:,\d{3})*(?:\.\d+)?
NumberToken ==
    Cat(<<Plus(D), Star(Cat(<<Lit(","), Rep(D, 3, 3)>>)), Opt(Cat(<<Lit("."), Plus(D)>>))>>)

number_patterns == <<
    \* r'\b\d+(?:,\d{3})*(?:\.\d+)?\s*(?:%|percent|dollars?|\$|€|£|USD|EUR|GBP)\b'
    Cat(<<WB, NumberToken, Star(S),
          Alt(<<Lit("%"), Lit("percent"), Cat(<<Lit("dollar"), Opt(Lit("s"))>>),
                Lit("$"), Lit("€"), Lit("£"), Lit("USD"), Lit("EUR"), Lit("GBP")>>),
          WB>>),
    \* r'\b(?:maximum|minimum|max|min|up to|at least|no more than|threshold|limit)\s+\d+'
    Cat(<<WB, AnyOf(<<"maximum", "minimum", "max", "min", "up to", "at least",
                      "no more than", "threshold", "limit">>), Plus(S), Plus(D)>>),
    \* r'\b\d+\s*(?:days|hours|minutes|months|years|weeks)\b'
    Cat(<<WB, Plus(D), Star(S),
          AnyOf(<<"days", "hours", "minutes", "months", "years", "weeks">>), WB>>) >>

MonthName == AnyOf(<<"January", "February", "March", "April", "May", "June", "July",
                     "August", "September", "October", "November", "December">>)

date_patterns == <<
    \* r'\b\d{1,2}[/-]\d{1,2}[/-]\d{2,4}\b'
    Cat(<<WB, Rep(D, 1, 2), Cls({"/", "-"}), Rep(D, 1, 2), Cls({"/", "-"}), Rep(D, 2, 4), WB>>),
    \* r'\b(?:January|...|December)\s+\d{1,2},?\s+\d{4}\b'
    Cat(<<WB, MonthName, Plus(S), Rep(D, 1, 2), Opt(Lit(",")), Plus(S), Rep(D, 4, 4), WB>>),
    \* r'\b\d{4}-\d{2}-\d{2}\b'
    Cat(<<WB, Rep(D, 4, 4), Lit("-"), Rep(D, 2, 2), Lit("-"), Rep(D, 2, 2), WB>>),
    \* r'\b(?:by|before|after|until|from|effective)\s+[A-Z][a-z]+\s+\d{1,2},?\s+\d{4}\b'
    Cat(<<WB, AnyOf(<<"by", "before", "after", "until", "from", "effective">>), Plus(S),
          Cls(UpperSet), Plus(Cls(LowerSet)), Plus(S), Rep(D, 1, 2), Opt(Lit(",")),
          Plus(S), Rep(D, 4, 4), WB>>) >>

\* exception_patterns with a bare "if" in the first alternation
ExceptionPatternsWithIf == <<
    Cat(<<WB, AnyOf(<<"unless", "except", "excluding", "with the exception of", "only if",
                      "provided that", "subject to", "if">>), WB>>),
    Cat(<<WB, AnyOf(<<"however", "but", "although", "whereas", "notwithstanding">>), WB>>),
    Cat(<<WB, AnyOf(<<"if and only if", "conditional upon", "contingent on">>), WB>>) >>

exception_patterns == <<
    \* r'\b(?:unless|except|excluding|with the exception of|only if|provided that|subject to)\b'
    Cat(<<WB, AnyOf(<<"unless", "except", "excluding", "with the exception of", "only if",
                      "provided that", "subject to">>), WB>>),
    \* r'\b(?:however|but|although|whereas|notwithstanding)\b'
    Cat(<<WB, AnyOf(<<"however", "but", "although", "whereas", "notwithstanding">>), WB>>),
    \* r'\b(?:if and only if|conditional upon|contingent on)\b'
    Cat(<<WB, AnyOf(<<"if and only if", "conditional upon", "contingent on">>), WB>>) >>

risk_patterns == <<
    \* r'\b(?:penalty|fine|violation|breach|non-compliance|failure to|risk|liability|damages)\b'
    Cat(<<WB, AnyOf(<<"penalty", "fine", "violation", "breach", "non-compliance",
                      "failure to", "risk", "liability", "damages">>), WB>>),
    \* r'\b(?:must|shall|required|mandatory|obligated|prohibited|forbidden)\b'
    Cat(<<WB, AnyOf(<<"must", "shall", "required", "mandatory", "obligated", "prohibited",
                      "forbidden">>), WB>>),
    \* r'\b(?:may result in|subject to|punishable by)\b'
    Cat(<<WB, AnyOf(<<"may result in", "subject to", "punishable by">>), WB>>) >>

compliance_patterns == <<
    \* r'\b(?:comply|compliance|regulation|regulatory|standard|requirement|pursuant to)\b'
    Cat(<<WB, AnyOf(<<"comply", "compliance", "regulation", "regulatory", "standard",
                      "requirement", "pursuant to">>), WB>>),
    \* r'\b(?:certif[iy]|audit|inspection|verification|validation)\b'
    Cat(<<WB, Alt(<<Cat(<<Lit("certif"), Cls({"i", "y"})>>), Lit("audit"), Lit("inspection"),
                    Lit("verification"), Lit("validation")>>), WB>>) >>

fact_indicators == <<
    \* r'\b(?:is|are|was|were|will be|has been|have been)\b'
    Cat(<<WB, AnyOf(<<"is", "are", "was", "were", "will be", "has been", "have been">>), WB>>),
    \* r'\b(?:defines|means|refers to|indicates|specifies)\b'
    Cat(<<WB, AnyOf(<<"defines", "means", "refers to", "indicates", "specifies">>), WB>>),
    \* r'\b(?:includes|consists of|comprises)\b'
    Cat(<<WB, AnyOf(<<"includes", "consists of", "comprises">>), WB>>) >>

\* _get_sentence_context with the end searched from the start of the text
SentenceContextFromStart(text, position) ==
    LET dot_before == RFindChar(text, ".", position)
        start      == IF dot_before = -1 THEN 0 ELSE dot_before + 1
        dot_after  == FindChar(text, ".", 0)
        end        == IF dot_after = -1 THEN Len(text) ELSE dot_after + 1
    IN  Strip(Slice(text, start, end))

\* the full sentence containing the position
_get_sentence_context(text, position) ==
    LET dot_before == RFindChar(text, ".", position)
        start      == IF dot_before = -1 THEN 0 ELSE dot_before + 1
        dot_after  == FindChar(text, ".", position)
        end        == IF dot_after = -1 THEN Len(text) ELSE dot_after + 1
    IN  Strip(Slice(text, start, end))

RECURSIVE ItemsOfMatches(_, _, _, _)
\* one item per match: the sentence around the match start, the matched text
ItemsOfMatches(chunk, ms, k, content_type) ==
    IF k > Len(ms) THEN <<>>
    ELSE <<ExtractedItem(Strip(_get_sentence_context(chunk.content, ms[k][1])),
                         chunk.chunk_id,
                         Slice(chunk.content, ms[k][1], ms[k][2]),
                         content_type, 10)>>
         \o ItemsOfMatches(chunk, ms, k + 1, content_type)

RECURSIVE ScanPatterns(_, _, _, _)
\* for pattern in patterns: for match in re.finditer(pattern, content, re.IGNORECASE)
ScanPatterns(chunk, patterns, k, content_type) ==
    IF k > Len(patterns) THEN <<>>
    ELSE ItemsOfMatches(chunk, FindIter(patterns[k], chunk.content, TRUE), 1, content_type)
         \o ScanPatterns(chunk, patterns, k + 1, content_type)

_extract_numbers(chunk)    == ScanPatterns(chunk, number_patterns, 1, NUMBER_LIMIT)
_extract_dates(chunk)      == ScanPatterns(chunk, date_patterns, 1, DATE_TIMELINE)
_extract_exceptions(chunk) == ScanPatterns(chunk, exception_patterns, 1, EXCEPTION_CONDITION)
_extract_risks(chunk)      == ScanPatterns(chunk, risk_patterns, 1, RISK_PENALTY)
_extract_compliance(chunk) == ScanPatterns(chunk, compliance_patterns, 1, COMPLIANCE_REQUIREMENT)

\* any(re.search(pattern, sentence, flags) for pattern in patterns)
AnyMatches(patterns, sentence, ic) ==
    \E k \in 1..Len(patterns) : Matches(patterns[k], sentence, ic)

RECURSIVE FactLoop(_, _, _)
FactLoop(chunk, sentences, k) ==
    IF k > Len(sentences) THEN <<>>
    ELSE LET sentence    == sentences[k]
             is_fact     == AnyMatches(fact_indicators, sentence, TRUE)
             is_specific == AnyMatches(number_patterns \o date_patterns, sentence, FALSE)
         IN  (IF is_fact /\ CountWords(sentence) > 5
              THEN <<ExtractedItem(Strip(sentence), chunk.chunk_id,
                                   IF Len(sentence) > 50
                                   THEN Slice(sentence, 0, 50) \o "..." ELSE sentence,
                                   OBJECTIVE_FACT,
                                   IF is_specific THEN 8 ELSE 6)>>
              ELSE <<>>)
             \o FactLoop(chunk, sentences, k + 1)

_extract_facts(chunk) == FactLoop(chunk, Split(SentenceSep, chunk.content), 1)

extract_from_chunk(chunk) ==
    _extract_numbers(chunk) \o _extract_dates(chunk) \o _extract_exceptions(chunk)
    \o _extract_risks(chunk) \o _extract_compliance(chunk) \o _extract_facts(chunk)

(***************************************************************************)
(* HierarchicalCompressor                                                  *)
(***************************************************************************)
\* the items of one type, in insertion order
OfType(items, content_type) ==
    SelectSeq(items, LAMBDA it : it.content_type = content_type)

\* a grouping that files a compliance requirement as an objective fact too
GroupRequirementsAlsoAsFacts(items) ==
    [objective_fact         |-> OfType(items, OBJECTIVE_FACT)
                                    \o OfType(items, COMPLIANCE_REQUIREMENT),
     number_limit           |-> OfType(items, NUMBER_LIMIT),
     date_timeline          |-> OfType(items, DATE_TIMELINE),
     exception_condition    |-> OfType(items, EXCEPTION_CONDITION),
     risk_penalty           |-> OfType(items, RISK_PENALTY),
     compliance_requirement |-> OfType(items, COMPLIANCE_REQUIREMENT)]

\* a grouping that puts each item in front of its list
GroupNewestFirst(items) ==
    LET Reversed(list) == [n \in 1..Len(list) |-> list[Len(list) + 1 - n]]
    IN  [objective_fact         |-> Reversed(OfType(items, OBJECTIVE_FACT)),
         number_limit           |-> Reversed(OfType(items, NUMBER_LIMIT)),
         date_timeline          |-> Reversed(OfType(items, DATE_TIMELINE)),
         exception_condition    |-> Reversed(OfType(items, EXCEPTION_CONDITION)),
         risk_penalty           |-> Reversed(OfType(items, RISK_PENALTY)),
         compliance_requirement |-> Reversed(OfType(items, COMPLIANCE_REQUIREMENT))]

\* the dictionary from content type to its items; a type without items holds
\* the empty list, which is what every later .get(content_type, []) reads
_group_by_type(items) ==
    [objective_fact         |-> OfType(items, OBJECTIVE_FACT),
     number_limit           |-> OfType(items, NUMBER_LIMIT),
     date_timeline          |-> OfType(items, DATE_TIMELINE),
     exception_condition    |-> OfType(items, EXCEPTION_CONDITION),
     risk_penalty           |-> OfType(items, RISK_PENALTY),
     compliance_requirement |-> OfType(items, COMPLIANCE_REQUIREMENT)]

\* r'\s+'
WhitespaceRun == Plus(S)
\* r'[.!?]+$'
TrailingPunct == Cat(<<Plus(Cls({".", "!", "?"})), EOL>>)

_normalize_statement(statement) ==
    Sub(TrailingPunct, "", Sub(WhitespaceRun, " ", Strip(Lower(statement))))

RECURSIVE DedupAdjacent(_, _, _, _)
\* a loop that remembers only the statement it saw last
DedupAdjacent(items, k, unique_items, seen_statements) ==
    IF k > Len(items) THEN unique_items
    ELSE LET normalized == _normalize_statement(items[k].statement)
         IN  IF normalized \notin seen_statements
             THEN DedupAdjacent(items, k + 1, Append(unique_items, items[k]), {normalized})
             ELSE DedupAdjacent(items, k + 1, unique_items, seen_statements)

RECURSIVE DedupLoop(_, _, _, _)
DedupLoop(items, k, unique_items, seen_statements) ==
    IF k > Len(items) THEN unique_items
    ELSE LET normalized == _normalize_statement(items[k].statement)
         IN  IF normalized \notin seen_statements
             THEN DedupLoop(items, k + 1, Append(unique_items, items[k]),
                            seen_statements \cup {normalized})
             ELSE DedupLoop(items, k + 1, unique_items, seen_statements)

\* _deduplicate_items that keeps every item
KeepDuplicates(grouped) == grouped

\* the first item of each normalized statement, per content type
_deduplicate_items(grouped) ==
    [objective_fact         |-> DedupLoop(grouped.objective_fact, 1, <<>>, {}),
     number_limit           |-> DedupLoop(grouped.number_limit, 1, <<>>, {}),
     date_timeline          |-> DedupLoop(grouped.date_timeline, 1, <<>>, {}),
     exception_condition    |-> DedupLoop(grouped.exception_condition, 1, <<>>, {}),
     risk_penalty           |-> DedupLoop(grouped.risk_penalty, 1, <<>>, {}),
     compliance_requirement |-> DedupLoop(grouped.compliance_requirement, 1, <<>>, {})]

\* entries that name a chunk by the entry's place in its list
FormatItemsByPosition(items) ==
    [n \in 1..Len(items) |->
        [statement |-> items[n].statement,
         source_chunks |-> <<ChunkId(n)>>,
         quote |-> items[n].quote,
         content_type |-> items[n].content_type]]

RECURSIVE _format_items(_)
_format_items(items) ==
    IF items = <<>> THEN <<>>
    ELSE <<[statement |-> Head(items).statement,
            source_chunks |-> <<Head(items).chunk_id>>,
            quote |-> Head(items).quote,
            content_type |-> Head(items).content_type]>>
         \o _format_items(Tail(items))

RECURSIVE InsertBeforeEqualConfidence(_, _)
\* an insertion that puts an item before the items of its own confidence
InsertBeforeEqualConfidence(sorted, it) ==
    IF sorted = <<>> THEN <<it>>
    ELSE IF Head(sorted).confidence > it.confidence
         THEN <<Head(sorted)>> \o InsertBeforeEqualConfidence(Tail(sorted), it)
         ELSE <<it>> \o sorted

RECURSIVE InsertByConfidence(_, _)
\* insert at the end of the run of items with confidence >= it.confidence
InsertByConfidence(sorted, it) ==
    IF sorted = <<>> THEN <<it>>
    ELSE IF Head(sorted).confidence >= it.confidence
         THEN <<Head(sorted)>> \o InsertByConfidence(Tail(sorted), it)
         ELSE <<it>> \o sorted

RECURSIVE SortedByConfidence(_, _)
\* sorted(items, key=lambda x: x.confidence, reverse=True): stable
SortedByConfidence(items, k) ==
    IF k = 0 THEN <<>>
    ELSE InsertByConfidence(SortedByConfidence(items, k - 1), items[k])

priority_order == <<RISK_PENALTY, COMPLIANCE_REQUIREMENT, NUMBER_LIMIT, DATE_TIMELINE,
                    EXCEPTION_CONDITION, OBJECTIVE_FACT>>

\* [:3]
TopItemsPerType == 3
\* summary[:10]
SummaryLimit == 10

RECURSIVE SummaryEntries(_, _)
SummaryEntries(top_items, content_type) ==
    IF top_items = <<>> THEN <<>>
    ELSE <<[statement |-> Head(top_items).statement,
            source_chunks |-> <<Head(top_items).chunk_id>>,
            priority |-> content_type]>>
         \o SummaryEntries(Tail(top_items), content_type)

RECURSIVE SummaryLoop(_, _)
SummaryLoop(deduplicated, k) ==
    IF k > Len(priority_order) THEN <<>>
    ELSE LET bucket    == deduplicated[priority_order[k]]
             top_items == Take(SortedByConfidence(bucket, Len(bucket)), TopItemsPerType)
         IN  SummaryEntries(top_items, priority_order[k]) \o SummaryLoop(deduplicated, k + 1)

\* _build_executive_summary without the final truncation
SummaryWithoutLimit(deduplicated) == SummaryLoop(deduplicated, 1)

_build_executive_summary(deduplicated) == Take(SummaryLoop(deduplicated, 1), SummaryLimit)

\* r'\b\w+\b'
WordToken == Cat(<<WB, Plus(W), WB>>)

Range(seq) == {seq[k] : k \in 1..Len(seq)}

\* set(re.findall(r'\b\w+\b', statement.lower()))
StatementWords(statement) == Range(FindAll(WordToken, Lower(statement)))
\* re.findall(r'\d+(?:,\d{3})*(?:\.\d+)?', statement)
StatementNumbers(statement) == FindAll(NumberToken, statement)

\* _might_contradict asking for at least three shared words
MightContradictAtThree(words1, nums1, words2, nums2) ==
    LET overlap == words1 \cap words2
    IN  IF Cardinality(overlap) >= 3
        THEN nums1 # <<>> /\ nums2 # <<>> /\ nums1 # nums2
        ELSE FALSE

\* the test of _might_contradict on the word sets and the number lists of the
\* two statements
_might_contradict(words1, nums1, words2, nums2) ==
    LET overlap == words1 \cap words2
    IN  IF Cardinality(overlap) > 3
        THEN nums1 # <<>> /\ nums2 # <<>> /\ nums1 # nums2
        ELSE FALSE

RECURSIVE OfStatements(_, _, _)
\* for each of the items from the k-th on, what the table holds for its statement
OfStatements(items, k, table) ==
    IF k > Len(items) THEN <<>>
    ELSE <<table[items[k].statement]>> \o OfStatements(items, k + 1, table)

\* the word sets of the items from the k-th on; items with the same statement
\* have the same word set, which is computed once per statement
WordsOfItems(items, k) ==
    OfStatements(items, k,
        [statement \in {items[n].statement : n \in k..Len(items)} |->
            StatementWords(statement)] @@ <<>>)

\* the number lists of the items from the k-th on, computed once per statement
NumbersOfItems(items, k) ==
    OfStatements(items, k,
        [statement \in {items[n].statement : n \in k..Len(items)} |->
            StatementNumbers(statement)] @@ <<>>)

RECURSIVE ContradictionLoop(_, _, _, _, _)
\* for i, item1 in enumerate(items): for item2 in items[i+1:]; words and nums
\* hold the word set and the number list of each item, computed once.  The
\* records of item i from j on; the call at the head of a row (j = i + 1)
\* appends the rows of the later items
ContradictionLoop(items, words, nums, i, j) ==
    IF j > Len(items) THEN <<>>
    ELSE (IF _might_contradict(words[i], nums[i], words[j], nums[j])
          THEN <<[statement_1 |-> items[i].statement,
                  source_chunk_1 |-> items[i].chunk_id,
                  statement_2 |-> items[j].statement,
                  source_chunk_2 |-> items[j].chunk_id,
                  contradiction_type |-> "potential_conflict"]>>
          ELSE <<>>)
         \o ContradictionLoop(items, words, nums, i, j + 1)
         \o (IF j = i + 1 THEN ContradictionLoop(items, words, nums, i + 1, i + 2)
             ELSE <<>>)

\* _detect_contradictions run on the items that deduplication keeps
DetectAfterDeduplication(items) ==
    LET Detect(kept) ==
            ContradictionLoop(kept, WordsOfItems(kept, 1), NumbersOfItems(kept, 1), 1, 2)
        Flat(deduplicated) ==
            deduplicated[priority_order[1]] \o deduplicated[priority_order[2]]
            \o deduplicated[priority_order[3]] \o deduplicated[priority_order[4]]
            \o deduplicated[priority_order[5]] \o deduplicated[priority_order[6]]
    IN  Detect(Flat(_deduplicate_items(_group_by_type(items))))

_detect_contradictions(items) ==
    ContradictionLoop(items, WordsOfItems(items, 1), NumbersOfItems(items, 1), 1, 2)

compress(items) ==
    LET Report(deduplicated) ==
            [executive_compressed_summary |-> _build_executive_summary(deduplicated),
             key_facts |-> _format_items(deduplicated[OBJECTIVE_FACT]),
             numbers_and_limits |-> _format_items(deduplicated[NUMBER_LIMIT]),
             dates_and_timelines |-> _format_items(deduplicated[DATE_TIMELINE]),
             exceptions_and_conditions |->
                 _format_items(deduplicated[EXCEPTION_CONDITION]),
             risks_and_constraints |->
                 _format_items(deduplicated[RISK_PENALTY]
                               \o deduplicated[COMPLIANCE_REQUIREMENT]),
             contradictions |-> _detect_contradictions(items)]
    IN  Report(_deduplicate_items(_group_by_type(items)))

(***************************************************************************)
(* TraceabilityMapper                                                      *)
(***************************************************************************)
\* Python None
None == "None"

StmtId(n) == "stmt_" \o ToString(n)

\* a Python dict is a function; d[key] = value
EmptyDict == <<>>
DictSet(d, key, value) ==
    [k \in DOMAIN d \cup {key} |-> IF k = key THEN value ELSE d[k]]

MappedCategories == <<"executive_compressed_summary", "key_facts", "numbers_and_limits",
                      "dates_and_timelines", "exceptions_and_conditions",
                      "risks_and_constraints">>

RECURSIVE TraceLoop(_, _, _, _, _)
\* c and j walk the categories and the entries of a category; statement_id
\* runs across all of them
TraceLoop(compressed, c, j, statement_id, traceability) ==
    IF c > Len(MappedCategories) THEN traceability
    ELSE IF MappedCategories[c] \notin DOMAIN compressed
            \/ j > Len(compressed[MappedCategories[c]])
         THEN TraceLoop(compressed, c + 1, 1, statement_id, traceability)
         ELSE LET item == compressed[MappedCategories[c]][j]
              IN  TraceLoop(compressed, c, j + 1, statement_id + 1,
                      DictSet(traceability, StmtId(statement_id),
                              IF "source_chunks" \in DOMAIN item
                              THEN item.source_chunks ELSE <<>>))

\* build_traceability_map that leaves the executive summary out
TraceabilityWithoutSummary(compressed) == TraceLoop(compressed, 2, 1, 1, EmptyDict)

build_traceability_map(compressed) == TraceLoop(compressed, 1, 1, 1, EmptyDict)

_get_inclusion_reason(item) ==
    CASE item.content_type = OBJECTIVE_FACT -> "Contains objective factual assertion"
      [] item.content_type = NUMBER_LIMIT -> "Contains specific numerical threshold or limit"
      [] item.content_type = DATE_TIMELINE -> "Contains date or timeline information"
      [] item.content_type = EXCEPTION_CONDITION ->
             "Contains exception or conditional requirement"
      [] item.content_type = RISK_PENALTY ->
             "Contains risk, penalty, or mandatory requirement"
      [] item.content_type = COMPLIANCE_REQUIREMENT ->
             "Contains compliance or regulatory requirement"
      [] OTHER -> "Decision-critical information"

generic_patterns == <<
    \* r'^(?:This document|This section|The purpose|Background|Introduction|Overview)'
    Cat(<<BOL, AnyOf(<<"This document", "This section", "The purpose", "Background",
                       "Introduction", "Overview">>)>>),
    \* r'(?:for example|such as|including but not limited to)'
    AnyOf(<<"for example", "such as", "including but not limited to">>),
    \* r'(?:In general|Generally speaking|Typically)'
    AnyOf(<<"In general", "Generally speaking", "Typically">>) >>

RECURSIVE FirstSentenceMatching(_, _, _)
FirstSentenceMatching(pattern, sentences, k) ==
    IF k > Len(sentences) THEN None
    ELSE IF Matches(pattern, sentences[k], TRUE) THEN sentences[k]
    ELSE FirstSentenceMatching(pattern, sentences, k + 1)

RECURSIVE GenericLoop(_, _)
GenericLoop(chunk, k) ==
    IF k > Len(generic_patterns) THEN ""
    ELSE IF Matches(generic_patterns[k], chunk.content, TRUE)
         THEN LET found == FirstSentenceMatching(generic_patterns[k],
                                                 Split(SentenceSep, chunk.content), 1)
              IN  IF found # None THEN found ELSE GenericLoop(chunk, k + 1)
         ELSE GenericLoop(chunk, k + 1)

_identify_generic_content(chunk) == GenericLoop(chunk, 1)

\* chunks[:5]
SampledChunks == 5
\* statement[:100]
StatementLimit == 100

RECURSIVE InclusionRecordsWholeStatement(_)
\* inclusion records that carry the statement at full length
InclusionRecordsWholeStatement(items) ==
    IF items = <<>> THEN <<>>
    ELSE LET item == Head(items)
         IN  <<[statement |-> item.statement,
                included_because |-> _get_inclusion_reason(item),
                source_chunk |-> item.chunk_id,
                content_type |-> item.content_type,
                removed_content_reason |-> None]>>
             \o InclusionRecordsWholeStatement(Tail(items))

RECURSIVE InclusionRecords(_)
InclusionRecords(items) ==
    IF items = <<>> THEN <<>>
    ELSE LET item == Head(items)
         IN  <<[statement |-> IF Len(item.statement) > StatementLimit
                              THEN Slice(item.statement, 0, StatementLimit) \o "..."
                              ELSE item.statement,
                included_because |-> _get_inclusion_reason(item),
                source_chunk |-> item.chunk_id,
                content_type |-> item.content_type,
                removed_content_reason |-> None]>>
             \o InclusionRecords(Tail(items))

RECURSIVE ExclusionRecords(_)
ExclusionRecords(chunks) ==
    IF chunks = <<>> THEN <<>>
    ELSE LET generic_content == _identify_generic_content(Head(chunks))
         IN  (IF generic_content # ""
              THEN <<[statement |-> Slice(generic_content, 0, StatementLimit) \o "...",
                      included_because |-> None,
                      source_chunk |-> Head(chunks).chunk_id,
                      content_type |-> "excluded",
                      removed_content_reason |->
                          "Generic narrative or background content without decision-critical information"]>>
              ELSE <<>>)
             \o ExclusionRecords(Tail(chunks))

\* build_explainability that scans every chunk for generic content
ExplainAllChunks(items, chunks) ==
    InclusionRecords(items) \o ExclusionRecords(chunks)

build_explainability(items, chunks) ==
    InclusionRecords(items) \o ExclusionRecords(Take(chunks, SampledChunks))

(***************************************************************************)
(* json.dumps(compressed): only its length is used                         *)
(***************************************************************************)
\* length of one character inside a JSON string (ensure_ascii=True)
JsonCharLen(c) ==
    IF c \in {"\"", "\\", "\n", "\r", "\t", "\f"} THEN 2
    ELSE IF c \in {"€", "£"} THEN 6
    ELSE 1

\* the serialized length of the characters of s
JsonCharsLen(s) ==
    Len(s) + Cardinality({k \in 1..Len(s) : JsonCharLen(SubSeq(s, k, k)) = 2})
           + 5 * Cardinality({k \in 1..Len(s) : JsonCharLen(SubSeq(s, k, k)) = 6})

\* len(json.dumps(s)) for a string; None is written null
JsonStrLen(s) == IF s = None THEN 4 ELSE 2 + JsonCharsLen(s)

RECURSIVE SumLens(_, _)
SumLens(lens, k) == IF k > Len(lens) THEN 0 ELSE lens[k] + SumLens(lens, k + 1)

\* a list whose elements have the serialized lengths lens: "[a, b]"
JsonListLen(lens) ==
    2 + SumLens(lens, 1) + (IF Len(lens) > 0 THEN 2 * (Len(lens) - 1) ELSE 0)

RECURSIVE SumPairs(_, _)
SumPairs(pairs, k) ==
    IF k > Len(pairs) THEN 0
    ELSE Len(pairs[k][1]) + 2 + 2 + pairs[k][2] + SumPairs(pairs, k + 1)

\* a dict given as <<key, serialized length of the value>> pairs: {"k": v, "l": w}
JsonDictLen(pairs) ==
    2 + SumPairs(pairs, 1) + (IF Len(pairs) > 0 THEN 2 * (Len(pairs) - 1) ELSE 0)

RECURSIVE MapLens(_, _, _)
MapLens(Op(_), list, k) ==
    IF k > Len(list) THEN <<>> ELSE <<Op(list[k])>> \o MapLens(Op, list, k + 1)

JsonStrListLen(list) == JsonListLen(MapLens(JsonStrLen, list, 1))

JsonSummaryEntryLen(e) ==
    JsonDictLen(<< <<"statement", JsonStrLen(e.statement)>>,
                   <<"source_chunks", JsonStrListLen(e.source_chunks)>>,
                   <<"priority", JsonStrLen(e.priority)>> >>)

JsonReportEntryLen(e) ==
    JsonDictLen(<< <<"statement", JsonStrLen(e.statement)>>,
                   <<"source_chunks", JsonStrListLen(e.source_chunks)>>,
                   <<"quote", JsonStrLen(e.quote)>>,
                   <<"content_type", JsonStrLen(e.content_type)>> >>)

JsonContradictionLen(e) ==
    JsonDictLen(<< <<"statement_1", JsonStrLen(e.statement_1)>>,
                   <<"source_chunk_1", JsonStrLen(e.source_chunk_1)>>,
                   <<"statement_2", JsonStrLen(e.statement_2)>>,
                   <<"source_chunk_2", JsonStrLen(e.source_chunk_2)>>,
                   <<"contradiction_type", JsonStrLen(e.contradiction_type)>> >>)

JsonExplainLen(e) ==
    JsonDictLen(<< <<"statement", JsonStrLen(e.statement)>>,
                   <<"included_because", JsonStrLen(e.included_because)>>,
                   <<"source_chunk", JsonStrLen(e.source_chunk)>>,
                   <<"content_type", JsonStrLen(e.content_type)>>,
                   <<"removed_content_reason", JsonStrLen(e.removed_content_reason)>> >>)

RECURSIVE TraceabilityPairs(_, _)
\* the <<key, serialized length>> pairs of the keys of a traceability map
TraceabilityPairs(map, keys) ==
    IF keys = {} THEN <<>>
    ELSE LET key == CHOOSE k \in keys : TRUE
         IN  << <<key, JsonStrListLen(map[key])>> >>
             \o TraceabilityPairs(map, keys \ {key})

\* len(json.dumps(compressed)) where compressed holds the seven report keys,
\* traceability_map and explainability (metadata is attached afterwards)
JsonCompressedLen(compressed) ==
    JsonDictLen(<<
        <<"executive_compressed_summary",
          JsonListLen(MapLens(JsonSummaryEntryLen, compressed.executive_compressed_summary, 1))>>,
        <<"key_facts", JsonListLen(MapLens(JsonReportEntryLen, compressed.key_facts, 1))>>,
        <<"numbers_and_limits",
          JsonListLen(MapLens(JsonReportEntryLen, compressed.numbers_and_limits, 1))>>,
        <<"dates_and_timelines",
          JsonListLen(MapLens(JsonReportEntryLen, compressed.dates_and_timelines, 1))>>,
        <<"exceptions_and_conditions",
          JsonListLen(MapLens(JsonReportEntryLen, compressed.exceptions_and_conditions, 1))>>,
        <<"risks_and_constraints",
          JsonListLen(MapLens(JsonReportEntryLen, compressed.risks_and_constraints, 1))>>,
        <<"contradictions",
          JsonListLen(MapLens(JsonContradictionLen, compressed.contradictions, 1))>>,
        <<"traceability_map",
          JsonDictLen(TraceabilityPairs(compressed.traceability_map,
                                        DOMAIN compressed.traceability_map))>>,
        <<"explainability",
          JsonListLen(MapLens(JsonExplainLen, compressed.explainability, 1))>> >>)

(***************************************************************************)
(* EnterpriseCompressionEngine                                             *)
(***************************************************************************)
\* round(a / b, 3) for b > 0, in thousandths; an exact tie goes to the even
\* neighbour
RoundThousandths(a, b) ==
    LET q == (a * 1000) \div b
        r == (a * 1000) % b
    IN  IF 2 * r > b THEN q + 1
        ELSE IF 2 * r < b THEN q
        ELSE IF q % 2 = 0 THEN q ELSE q + 1

\* _calculate_compression_ratio that divides by at least one instead of
\* returning 0.0 for an empty original
RatioWithoutEmptyCase(original, compressed) ==
    LET original_size   == Len(original)
        compressed_size == JsonCompressedLen(compressed)
    IN  RoundThousandths(compressed_size, IF original_size > 0 THEN original_size ELSE 1)

\* compression_ratio in thousandths: 0 is 0.0
_calculate_compression_ratio(original, compressed) ==
    LET original_size   == Len(original)
        compressed_size == JsonCompressedLen(compressed)
    IN  IF original_size > 0 THEN RoundThousandths(compressed_size, original_size) ELSE 0

\* compressed["traceability_map"] = ...; compressed["explainability"] = ...
WithTrace(compressed, traceability_map, explainability) ==
    [executive_compressed_summary |-> compressed.executive_compressed_summary,
     key_facts |-> compressed.key_facts,
     numbers_and_limits |-> compressed.numbers_and_limits,
     dates_and_timelines |-> compressed.dates_and_timelines,
     exceptions_and_conditions |-> compressed.exceptions_and_conditions,
     risks_and_constraints |-> compressed.risks_and_constraints,
     contradictions |-> compressed.contradictions,
     traceability_map |-> traceability_map,
     explainability |-> explainability]

\* compressed["metadata"] = ...
WithMetadata(compressed, metadata) ==
    [executive_compressed_summary |-> compressed.executive_compressed_summary,
     key_facts |-> compressed.key_facts,
     numbers_and_limits |-> compressed.numbers_and_limits,
     dates_and_timelines |-> compressed.dates_and_timelines,
     exceptions_and_conditions |-> compressed.exceptions_and_conditions,
     risks_and_constraints |-> compressed.risks_and_constraints,
     contradictions |-> compressed.contradictions,
     traceability_map |-> compressed.traceability_map,
     explainability |-> compressed.explainability,
     metadata |-> metadata]

RECURSIVE ExtractAll(_, _)
\* for chunk in chunks: all_items.extend(extract_from_chunk(chunk))
ExtractAll(chunks, k) ==
    IF k > Len(chunks) THEN <<>>
    ELSE extract_from_chunk(chunks[k]) \o ExtractAll(chunks, k + 1)

\* process(document) on an engine built with chunk_strategy; the chunks and
\* the raw items of the run are returned next to the result
process(chunk_strategy, doc) ==
    LET \* compressed["metadata"] = {...}; return compressed
        AddMetadata(chunks_, all_items_, traced) ==
            [chunks |-> chunks_, all_items |-> all_items_,
             result |-> WithMetadata(traced,
                 [total_chunks |-> Len(chunks_),
                  total_extracted_items |-> Len(all_items_),
                  compression_ratio |-> _calculate_compression_ratio(doc, traced),
                  chunk_strategy |-> chunk_strategy])]
        \* Step 4: traceability and explainability
        Trace(chunks_, all_items_, compressed) ==
            AddMetadata(chunks_, all_items_,
                WithTrace(compressed, build_traceability_map(compressed),
                          build_explainability(all_items_, chunks_)))
        \* Step 3: hierarchical compression
        CompressItems(chunks_, all_items_) ==
            Trace(chunks_, all_items_, compress(all_items_))
        \* Step 2: extraction from each chunk
        Extract(chunks_) == CompressItems(chunks_, ExtractAll(chunks_, 1))
    \* Step 1: chunking
    IN  Extract(chunk_document(chunk_strategy, doc, DefaultMaxChunkSize))

(***************************************************************************)
(* Inputs                                                                  *)
(***************************************************************************)
\* the end-to-end example document
EndToEndDocument ==
    "Payment of $100,000 is due by December 31, 2024. A penalty of 5% applies if late."
\* the same document with the conditional spelled "only if"
OnlyIfDocument ==
    "Payment of $100,000 is due by December 31, 2024. A penalty of 5% applies only if late."
\* the chunk of test_extract_numbers
PriceDocument == "The price is $150,000 per year with a maximum of 20%."

\* a paragraph of generic narrative, then two fee paragraphs, one with a decimal
RateDocument ==
    "Typically it is low.\n\nThe annual fee is 100 dollars.\n\nThe annual fee is 1.5 percent."

\* the pieces documents are assembled from
Fragments == <<"\n\n", " ", "# A",
               "It shall comply.",
               "Fee is 5 percent by 1/1/24 but must audit it.">>

MaxFragments == 3

RECURSIVE Assembled(_)
\* the documents made of exactly n fragments
Assembled(n) ==
    IF n = 0 THEN {""}
    ELSE {d \o Fragments[k] : d \in Assembled(n - 1), k \in 1..Len(Fragments)}

Documents ==
    {EndToEndDocument, OnlyIfDocument, PriceDocument, RateDocument}
        \cup UNION {Assembled(n) : n \in 0..MaxFragments}

\* the four strategies and a name that is none of them
StrategyNames == Strategies \cup {"bogus"}

(***************************************************************************)
(* State                                                                   *)
(***************************************************************************)
VARIABLES
    chunk_strategy,   \* DocumentChunker.chunk_strategy of the engine
    document,         \* the argument of process()
    chunks,           \* the chunks of the run
    all_items,        \* the raw extracted items of the run (the argument of compress())
    result,           \* the returned dictionary
    pc,               \* "ready" before the call, "done" after it returned
    max_chunk_size,   \* the max_chunk_size argument of chunk_document()
    documents,        \* the argument of CompressionAPI.batch_compress()
    results,          \* the results list of batch_compress()
    request,          \* the /api/upload request being handled
    response,         \* the response to it
    _current_result,        \* app.py: the globals of the web layer
    _current_filename,
    _current_doc_text,
    _current_llm_summary,
    _chat_history,
    upload_frame,     \* upload() while it runs: its place and its request
    chat_frame        \* chat() while it runs: its place, its request and its locals

\* the session state of the web layer
web_state == <<_current_result, _current_filename, _current_doc_text,
               _current_llm_summary, _chat_history>>

\* the handlers that are running
frames == <<upload_frame, chat_frame>>

vars == <<chunk_strategy, document, chunks, all_items, result, pc, max_chunk_size,
          documents, results, request, response, web_state, frames>>

NoResult == <<>>

\* before the first request: nothing was answered
NoResponse == [status |-> 0, body |-> <<>>]

\* a handler that is not running
NotRunning == [pc |-> "idle"]

\* app.py, module level: the web layer has served no request
Idle ==
    /\ upload_frame = NotRunning
    /\ chat_frame = NotRunning
    /\ request = None
    /\ response = NoResponse
    /\ _current_result = None
    /\ _current_filename = None
    /\ _current_doc_text = None
    /\ _current_llm_summary = None
    /\ _chat_history = <<>>

\* an engine constructed with some strategy name and a document to process
Init ==
    /\ chunk_strategy \in StrategyNames
    /\ document \in Documents
    /\ chunks = <<>>
    /\ all_items = <<>>
    /\ result = NoResult
    /\ pc = "ready"
    /\ max_chunk_size = DefaultMaxChunkSize
    /\ documents = <<>>
    /\ results = <<>>
    /\ Idle

\* EnterpriseCompressionEngine.process(document)
Process ==
    /\ pc = "ready"
    /\ \E run \in {process(chunk_strategy, document)} :
           /\ chunks' = run.chunks
           /\ all_items' = run.all_items
           /\ result' = run.result
    /\ pc' = "done"
    /\ UNCHANGED <<chunk_strategy, document, max_chunk_size, documents, results,
                   request, response, web_state, frames>>

Next == Process

Spec == Init /\ [][Next]_vars

(***************************************************************************)
(* HierarchicalCompressor.compress called directly on a list of items      *)
(***************************************************************************)
ContentTypes == <<OBJECTIVE_FACT, NUMBER_LIMIT, DATE_TIMELINE, EXCEPTION_CONDITION,
                  RISK_PENALTY, COMPLIANCE_REQUIREMENT>>

Fee100       == "The fee is $100"
Fee200       == "The fee is $200"
DeadlineJan1 == "The deadline is January 1"
AnnualFee100 == "The annual fee is $100"
AnnualFee200 == "The annual fee is $200"
Payment      == "Payment is $100,000"

\* the items short lists are drawn from
CandidateItems == {
    ExtractedItem(Fee100, "chunk_1", "$100", NUMBER_LIMIT, 10),
    ExtractedItem(Fee200, "chunk_2", "$200", NUMBER_LIMIT, 10),
    ExtractedItem(DeadlineJan1, "chunk_2", "January 1", DATE_TIMELINE, 10),
    ExtractedItem(AnnualFee100, "chunk_1", "$100", NUMBER_LIMIT, 10),
    ExtractedItem(AnnualFee200, "chunk_2", "$200", NUMBER_LIMIT, 10),
    ExtractedItem(Payment, "chunk_1", "$100,000", NUMBER_LIMIT, 10),
    ExtractedItem(Payment, "chunk_2", "$100,000", NUMBER_LIMIT, 10),
    ExtractedItem("payment  is $100,000.", "chunk_3", "$100,000", NUMBER_LIMIT, 10),
    ExtractedItem(Payment, "chunk_2", "Payment", RISK_PENALTY, 10)}

MaxItems == 3

RECURSIVE ListsOf(_)
\* the lists of exactly n candidate items
ListsOf(n) ==
    IF n = 0 THEN {<<>>}
    ELSE {Append(l, it) : l \in ListsOf(n - 1), it \in CandidateItems}

FreeLists == UNION {ListsOf(n) : n \in 0..MaxItems}

\* the k-th distinct statement of a content type
BulkItem(content_type, k) ==
    ExtractedItem(content_type \o " clause " \o ToString(k), ChunkId(k), ToString(k),
                  content_type, IF k % 2 = 1 THEN 8 ELSE 10)

MaxPerType == 4

\* per_type distinct statements for each of the first n_types content types,
\* interleaved as a document that repeats its clauses would yield them
BulkList(per_type, n_types) ==
    [i \in 1..(per_type * n_types) |->
        BulkItem(ContentTypes[((i - 1) % n_types) + 1], ((i - 1) \div n_types) + 1)]

BulkLists == {BulkList(per_type, n_types) :
                  per_type \in 0..MaxPerType, n_types \in 1..Len(ContentTypes)}

ItemLists == FreeLists \cup BulkLists

\* a compressor and a list of items to compress; no engine, no document
InitCompress ==
    /\ chunk_strategy = "paragraph"
    /\ document = ""
    /\ chunks = <<>>
    /\ all_items \in ItemLists
    /\ result = NoResult
    /\ pc = "ready"
    /\ max_chunk_size = DefaultMaxChunkSize
    /\ documents = <<>>
    /\ results = <<>>
    /\ Idle

\* HierarchicalCompressor.compress(items)
Compress ==
    /\ pc = "ready"
    /\ \E compressed \in {compress(all_items)} : result' = compressed
    /\ pc' = "done"
    /\ UNCHANGED <<chunk_strategy, document, chunks, all_items, max_chunk_size,
                   documents, results, request, response, web_state, frames>>

SpecCompress == InitCompress /\ [][Compress]_vars

(***************************************************************************)
(* process() on documents of several paragraphs                            *)
(***************************************************************************)
\* a paragraph of generic narrative: two sentences that match generic_patterns
GenericParagraph == "Typically so. In general no."
\* a paragraph with a duty
DutyParagraph == "It shall comply."
\* a sentence of more than 100 characters
LongDocument ==
    "The supplier shall deliver every replacement part to the main warehouse of the buyer "
        \o "before the end of the month."

MaxParagraphs == 6

RECURSIVE ParagraphDocuments(_)
\* the documents of exactly n paragraphs
ParagraphDocuments(n) ==
    IF n = 0 THEN {""}
    ELSE IF n = 1 THEN {GenericParagraph, DutyParagraph}
    ELSE {d \o "\n\n" \o p : d \in ParagraphDocuments(n - 1),
                               p \in {GenericParagraph, DutyParagraph}}

ExplainDocuments ==
    {LongDocument} \cup UNION {ParagraphDocuments(n) : n \in 0..MaxParagraphs}

\* an engine with the default strategy and a document of several paragraphs
InitExplain ==
    /\ chunk_strategy = "paragraph"
    /\ document \in ExplainDocuments
    /\ chunks = <<>>
    /\ all_items = <<>>
    /\ result = NoResult
    /\ pc = "ready"
    /\ max_chunk_size = DefaultMaxChunkSize
    /\ documents = <<>>
    /\ results = <<>>
    /\ Idle

SpecExplain == InitExplain /\ [][Process]_vars

(***************************************************************************)
(* process() with the section strategy on documents given line by line     *)
(***************************************************************************)
\* a blank line, a header, a line of text with blanks around it
SectionLines == {"", "# A", " b "}

MaxLines == 5

RECURSIVE LineDocuments(_)
\* the documents of exactly n lines
LineDocuments(n) ==
    IF n = 0 THEN {""}
    ELSE IF n = 1 THEN SectionLines
    ELSE {d \o "\n" \o line : d \in LineDocuments(n - 1), line \in SectionLines}

SectionDocuments == UNION {LineDocuments(n) : n \in 0..MaxLines}

InitSection ==
    /\ chunk_strategy = "section"
    /\ document \in SectionDocuments
    /\ chunks = <<>>
    /\ all_items = <<>>
    /\ result = NoResult
    /\ pc = "ready"
    /\ max_chunk_size = DefaultMaxChunkSize
    /\ documents = <<>>
    /\ results = <<>>
    /\ Idle

SpecSection == InitSection /\ [][Process]_vars

(***************************************************************************)
(* CompressionAPI.batch_compress: one engine, several documents in turn    *)
(***************************************************************************)

MaxBatch == 3

BatchDocuments == {"", Fragments[4], Fragments[5]}

Batches == UNION {[1..n -> BatchDocuments] : n \in 0..MaxBatch}

\* api = CompressionAPI(chunk_strategy); api.batch_compress(documents)
InitBatch ==
    /\ chunk_strategy \in {"paragraph", "sentence"}
    /\ document = ""
    /\ chunks = <<>>
    /\ all_items = <<>>
    /\ result = NoResult
    /\ pc = "ready"
    /\ max_chunk_size = DefaultMaxChunkSize
    /\ documents \in Batches
    /\ results = <<>>
    /\ Idle

\* a pass of the loop that hands back the first result of the batch again
BatchCompressStale ==
    /\ pc = "ready"
    /\ Len(results) < Len(documents)
    /\ \E doc \in {documents[Len(results) + 1]} :
         \E run \in {process(chunk_strategy, doc)} :
            /\ document' = doc
            /\ chunks' = run.chunks
            /\ all_items' = run.all_items
            /\ result' = IF results = <<>> THEN run.result ELSE results[1]
            /\ results' = Append(results, result')
    /\ pc' = "ready"
    /\ UNCHANGED <<chunk_strategy, max_chunk_size, documents, request, response,
                   web_state, frames>>

\* one pass of the loop: results.append(self.engine.process(doc))
BatchCompress ==
    /\ pc = "ready"
    /\ Len(results) < Len(documents)
    /\ \E doc \in {documents[Len(results) + 1]} :
         \E run \in {process(chunk_strategy, doc)} :
            /\ document' = doc
            /\ chunks' = run.chunks
            /\ all_items' = run.all_items
            /\ result' = run.result
            /\ results' = Append(results, run.result)
    /\ pc' = "ready"
    /\ UNCHANGED <<chunk_strategy, max_chunk_size, documents, request, response,
                   web_state, frames>>

SpecBatch == InitBatch /\ [][BatchCompress]_vars

(***************************************************************************)
(* DocumentChunker._chunk_by_fixed_size, one pass of its loop at a time    *)
(***************************************************************************)

MaxTextLen == 5
MaxChunkSize == 5

RECURSIVE TextsOfLen(_)
\* the texts of n characters over a letter, the full stop and the space
TextsOfLen(n) ==
    IF n = 0 THEN {""} ELSE {t \o c : t \in TextsOfLen(n - 1), c \in {"a", ".", " "}}

ChunkTexts == UNION {TextsOfLen(n) : n \in 0..MaxTextLen}

\* a chunker with the fixed_size strategy, not called yet
InitFixedSize ==
    /\ chunk_strategy = "fixed_size"
    /\ document = ""
    /\ max_chunk_size = DefaultMaxChunkSize
    /\ chunks = <<>>
    /\ all_items = <<>>
    /\ result = NoResult
    /\ pc = "idle"
    /\ documents = <<>>
    /\ results = <<>>
    /\ Idle

\* chunk_document(text, max_chunk_size) is called and reaches the head of the
\* loop: chunks = [], current_pos = 0
FixedSizeCall ==
    /\ pc = "idle"
    /\ document' \in ChunkTexts
    /\ max_chunk_size' \in 1..MaxChunkSize
    /\ pc' = "ready"
    /\ UNCHANGED <<chunk_strategy, chunks, all_items, result, documents, results,
                   request, response, web_state, frames>>

\* current_pos: 0 at first, then the end_pos of the chunk appended last
current_pos == IF chunks = <<>> THEN 0 ELSE chunks[Len(chunks)].end_pos

\* one pass of the while loop
FixedSizePass ==
    /\ pc = "ready"
    /\ current_pos < Len(document)
    /\ chunks' = Append(chunks, FixedSizeChunk(document, max_chunk_size, current_pos,
                                               Len(chunks) + 1))
    /\ UNCHANGED <<chunk_strategy, document, all_items, result, pc, max_chunk_size,
                   documents, results, request, response, web_state, frames>>

\* the loop condition fails: return chunks
FixedSizeReturn ==
    /\ pc = "ready"
    /\ ~(current_pos < Len(document))
    /\ pc' = "done"
    /\ UNCHANGED <<chunk_strategy, document, chunks, all_items, result, max_chunk_size,
                   documents, results, request, response, web_state, frames>>

NextFixedSize == FixedSizeCall \/ FixedSizePass \/ FixedSizeReturn

SpecFixedSize == InitFixedSize /\ [][NextFixedSize]_vars

\* the loop is sequential code: once called it keeps running until it returns
FairFixedSize == SpecFixedSize /\ WF_vars(FixedSizePass \/ FixedSizeReturn)

(***************************************************************************)
(* app.py: POST /api/upload                                                *)
(***************************************************************************)

\* os.path.splitext(p)[1]: from the last dot of the last path component on,
\* unless only dots precede it there
splitext(p) ==
    LET sepIndex == RFindChar(p, "/", Len(p))
        dotIndex == RFindChar(p, ".", Len(p))
    IN  IF /\ dotIndex > sepIndex
           /\ \E i \in (sepIndex + 1)..(dotIndex - 1) : Ch(p, i) # "."
        THEN Slice(p, dotIndex, Len(p))
        ELSE ""

SupportedExtensions == {".txt", ".pdf", ".docx", ".doc"}

\* jsonify({"error": message}), status
ErrorResponse(status, message) == [status |-> status, body |-> [error |-> message]]

\* A request and what its collaborators do with it: the file part and its
\* filename, the form field chunk_strategy, the API key _get_api_key() finds
\* ("" for none), what extract_text_from_file does with the file (raises
\* ValueError, raises another exception, or returns text), what compress_text
\* does (returns, unless compress_error holds the message it raises with),
\* and what summarize_with_llm does (raises with the message llm_error, or
\* returns llm_summary).
UploadRequest(has_file, filename, strategy, api_key, read_raises, text, llm_error) ==
    [has_file |-> has_file, filename |-> filename, chunk_strategy |-> strategy,
     api_key |-> api_key, read_raises |-> read_raises, text |-> text,
     compress_error |-> None,
     llm_error |-> llm_error, llm_summary |-> "A summary."]

\* the same request when api.compress_text(text) raises
CompressionRaises(req) == [req EXCEPT !.compress_error = "out of memory"]

ReadErrorMessage == "cannot read"

\* the checks a request that does not reach the rule engine passes
UploadRejectionWithoutTextCheck(req) ==
    IF ~req.has_file THEN ErrorResponse(400, "No file in request")
    ELSE IF Strip(req.filename) = "" THEN ErrorResponse(400, "No file selected")
    ELSE IF Lower(splitext(Strip(req.filename))) \notin SupportedExtensions
    THEN ErrorResponse(400, "Unsupported file type. Use .txt, .pdf, or .docx")
    ELSE IF req.read_raises = "ValueError" THEN ErrorResponse(400, ReadErrorMessage)
    ELSE IF req.read_raises # None
    THEN ErrorResponse(500, "Failed to read file: " \o ReadErrorMessage)
    ELSE NoResponse

\* upload(), lines 52 to 89: the error response of a request that is turned
\* away before the rule engine runs, NoResponse for a request that is not
UploadRejection(req) ==
    IF ~req.has_file THEN ErrorResponse(400, "No file in request")
    ELSE IF Strip(req.filename) = "" THEN ErrorResponse(400, "No file selected")
    ELSE IF Lower(splitext(Strip(req.filename))) \notin SupportedExtensions
    THEN ErrorResponse(400, "Unsupported file type. Use .txt, .pdf, or .docx")
    ELSE IF req.read_raises = "ValueError" THEN ErrorResponse(400, ReadErrorMessage)
    ELSE IF req.read_raises # None
    THEN ErrorResponse(500, "Failed to read file: " \o ReadErrorMessage)
    ELSE IF Strip(req.text) = ""
    THEN ErrorResponse(400, "No text could be extracted from the file")
    ELSE NoResponse

NoApiKeyMessage == "No API key. Add GEMINI_API_KEY to your .env file and restart the app."

\* a result that drops the error of a summarization that raised
WithLlmSummaryDroppingError(compressed, req) ==
    IF req.api_key # "" /\ req.llm_error = None
    THEN [llm_summary |-> req.llm_summary] @@ compressed
    ELSE IF req.api_key # ""
    THEN [llm_summary |-> None] @@ compressed
    ELSE [llm_summary |-> None, llm_summary_error |-> NoApiKeyMessage] @@ compressed

\* upload(), lines 102 to 114: the result with the keys of the summarization
WithLlmSummary(compressed, req) ==
    IF req.api_key # "" /\ req.llm_error = None
    THEN [llm_summary |-> req.llm_summary] @@ compressed
    ELSE IF req.api_key # ""
    THEN [llm_summary |-> None, llm_summary_error |-> req.llm_error] @@ compressed
    ELSE [llm_summary |-> None, llm_summary_error |-> NoApiKeyMessage] @@ compressed

\* filenames upload() turns away
UnsupportedFilenames == {"", " ", "notes", "run.exe", ".txt"}

\* two files upload() accepts: the filename and the text read from the file
UploadFiles == {<<"a.txt", Fragments[4]>>, <<" B.PDF ", Fragments[5]>>}

\* the requests: each way of being turned away, and for each file, strategy
\* and outcome of the summarization a request that reaches the rule engine
UploadRequests ==
    {UploadRequest(FALSE, "", "paragraph", "", None, "", None)}
    \cup {UploadRequest(TRUE, filename, "paragraph", "", None, Fragments[4], None) :
             filename \in UnsupportedFilenames}
    \cup {UploadRequest(TRUE, "a.txt", "paragraph", "key", read_raises, "", None) :
             read_raises \in {"ValueError", "Exception"}}
    \cup {UploadRequest(TRUE, "a.txt", "paragraph", "key", None, text, None) :
             text \in {"", " \n"}}
    \cup {UploadRequest(TRUE, file[1], strategy, llm[1], None, file[2], llm[2]) :
             file \in UploadFiles, strategy \in {"paragraph", "sentence"},
             llm \in {<<"", None>>, <<"key", None>>, <<"key", "quota exceeded">>}}

\* the application started, no engine was made yet
InitUpload ==
    /\ chunk_strategy = "paragraph"
    /\ document = ""
    /\ chunks = <<>>
    /\ all_items = <<>>
    /\ result = NoResult
    /\ pc = "ready"
    /\ max_chunk_size = DefaultMaxChunkSize
    /\ documents = <<>>
    /\ results = <<>>
    /\ Idle

\* upload() on one request, from its arrival to its response
UploadHandler(req) ==
    /\ request' = req
    /\ \E rejection \in {UploadRejection(req)} :
         IF rejection # NoResponse
         THEN /\ response' = rejection
              /\ UNCHANGED <<chunk_strategy, document, chunks, all_items, result, pc,
                             web_state>>
         ELSE IF req.compress_error # None
         \* lines 91 to 98: the text is stored and the history emptied, then the
         \* rule engine raises
         THEN /\ _current_doc_text' = req.text
              /\ _chat_history' = <<>>
              /\ response' = ErrorResponse(500, "Compression failed: "
                                                    \o req.compress_error)
              /\ UNCHANGED <<chunk_strategy, document, chunks, all_items, result, pc,
                             _current_result, _current_filename, _current_llm_summary>>
         ELSE \E run \in {process(req.chunk_strategy, req.text)} :
              \E body \in {WithLlmSummary(run.result, req)} :
                 /\ _current_doc_text' = req.text
                 /\ _chat_history' = <<>>
                 /\ chunk_strategy' = req.chunk_strategy
                 /\ document' = req.text
                 /\ chunks' = run.chunks
                 /\ all_items' = run.all_items
                 /\ result' = body
                 /\ pc' = "done"
                 /\ _current_llm_summary' = body.llm_summary
                 /\ _current_result' = body
                 /\ _current_filename' = Strip(req.filename)
                 /\ response' = [status |-> 200, body |-> body]
    /\ UNCHANGED <<max_chunk_size, documents, results, frames>>

\* upload(): one request handled from its arrival to its response
Upload == \E req \in UploadRequests : UploadHandler(req)

SpecUpload == InitUpload /\ [][Upload]_vars

(***************************************************************************)
(* app.py: POST /api/chat, and sessions of uploads and chats               *)
(***************************************************************************)
\* A chat request and what its collaborators do with it: the JSON field
\* question, the API key _get_api_key() finds ("" for none), and what
\* chat_with_llm does (raises with the message llm_error, or answers).
ChatRequest(question, api_key, llm_error) ==
    [question |-> question, api_key |-> api_key, llm_error |-> llm_error]

\* context = (_current_llm_summary or "") + "\n\n---\n\n" + (_current_doc_text or "")
ContextSeparator == "\n\n---\n\n"
ChatContext(llm_summary, doc_text) ==
    (IF llm_summary = None THEN "" ELSE llm_summary) \o ContextSeparator
        \o (IF doc_text = None THEN "" ELSE doc_text)

\* chat_with_llm(question, document_context, ...): the answer is the language
\* model's, drawn from the context it was given; here it restates that
\* context, so that an answer shows the document it was computed from
chat_with_llm(question, document_context) == "Answer from: " \o document_context

\* chat(), lines 130 to 146: the response of a request that is answered
\* without the language model, NoResponse for a request that is not
ChatRejection(req, doc_text, llm_summary) ==
    IF Strip(req.question) = ""
    THEN [status |-> 400, body |-> [error |-> "No question provided", answer |-> ""]]
    ELSE IF req.api_key = ""
    THEN [status |-> 400,
          body |-> [error |-> "API key required for chat",
                    answer |-> "Set GEMINI_API_KEY in your .env file and restart the app."]]
    ELSE IF doc_text = None /\ llm_summary = None
    THEN [status |-> 200,
          body |-> [answer |->
              "Please upload and summarize a document first, then ask your question."]]
    ELSE NoResponse

\* chat(), lines 151 to 168: the call of the language model with the context
\* read before it, the two appends to the history, the response
ChatAnswer(req, context) ==
    IF req.llm_error # None
    THEN /\ response' = [status |-> 200,
                         body |-> [answer |-> "Error: " \o req.llm_error,
                                   document |-> _current_filename]]
         /\ UNCHANGED _chat_history
    ELSE \E answer \in {chat_with_llm(Strip(req.question), context)} :
         /\ _chat_history' = _chat_history
                \o <<[role |-> "user", content |-> Strip(req.question)],
                      [role |-> "assistant", content |-> answer]>>
         /\ response' = [status |-> 200,
                         body |-> [answer |-> answer, document |-> _current_filename]]

\* a chat() that records the question before it calls the language model
ChatHandlerRecordingQuestionFirst(req) ==
    /\ request' = req
    /\ \E rejection \in {ChatRejection(req, _current_doc_text, _current_llm_summary)} :
         IF rejection # NoResponse
         THEN response' = rejection /\ UNCHANGED _chat_history
         ELSE IF req.llm_error # None
         THEN /\ response' = [status |-> 200,
                              body |-> [answer |-> "Error: " \o req.llm_error,
                                        document |-> _current_filename]]
              /\ _chat_history' = Append(_chat_history,
                                         [role |-> "user", content |-> Strip(req.question)])
         ELSE ChatAnswer(req, ChatContext(_current_llm_summary, _current_doc_text))
    /\ UNCHANGED <<chunk_strategy, document, chunks, all_items, result, pc, max_chunk_size,
                   documents, results, _current_result, _current_filename,
                   _current_doc_text, _current_llm_summary, frames>>

\* chat() on one request, from its arrival to its response
ChatHandler(req) ==
    /\ request' = req
    /\ \E rejection \in {ChatRejection(req, _current_doc_text, _current_llm_summary)} :
         IF rejection # NoResponse
         THEN response' = rejection /\ UNCHANGED _chat_history
         ELSE ChatAnswer(req, ChatContext(_current_llm_summary, _current_doc_text))
    /\ UNCHANGED <<chunk_strategy, document, chunks, all_items, result, pc, max_chunk_size,
                   documents, results, _current_result, _current_filename,
                   _current_doc_text, _current_llm_summary, frames>>

\* a text the rule engine is given when it raises
FeeText == "Fee is 5%."

\* the uploads of a session: no file, a file without text, a file that is
\* summarized, the same file without an API key, a file the rule engine
\* raises on
SessionUploads ==
    {UploadRequest(FALSE, "", "paragraph", "", None, "", None),
     UploadRequest(TRUE, "a.txt", "paragraph", "key", None, " \n", None),
     UploadRequest(TRUE, "a.txt", "paragraph", "key", None, Fragments[4], None),
     UploadRequest(TRUE, "a.txt", "paragraph", "", None, Fragments[4], None),
     CompressionRaises(UploadRequest(TRUE, "c.docx", "paragraph", "key", None,
                                     FeeText, None))}

\* the chats of a session: no question, no API key, two questions that are
\* answered, a question the language model raises on
ChatRequests ==
    {ChatRequest(" ", "key", None),
     ChatRequest("Why?", "", None),
     ChatRequest(" Why? ", "key", None),
     ChatRequest("How?", "key", None),
     ChatRequest("Why?", "key", "timeout")}

\* the exchanges a session is followed for
MaxExchanges == 2

SessionUpload == \E req \in SessionUploads : UploadHandler(req)

\* chat(): one request handled from its arrival to its response; a session
\* is followed until its history holds MaxExchanges exchanges
Chat ==
    \E req \in ChatRequests :
        /\ req.llm_error = None => Len(_chat_history) < 2 * MaxExchanges
        /\ ChatHandler(req)

\* requests handled one at a time
NextSession == SessionUpload \/ Chat

SpecSession == InitUpload /\ [][NextSession]_vars

(***************************************************************************)
(* app.py under the threaded server: one upload() and one chat() at a time, *)
(* their steps interleaved.  A handler gives way at its calls (the rule     *)
(* engine, the language model) and between its statements; the steps below *)
(* are cut at the reads and writes of the globals.                          *)
(***************************************************************************)

\* the variables of the rule engine
engine_state == <<chunk_strategy, document, chunks, all_items, result, pc>>

\* the uploads that run beside a chat: no file, and two files that are
\* summarized
ConcurrentUploads ==
    {UploadRequest(FALSE, "", "paragraph", "", None, "", None),
     UploadRequest(TRUE, "a.txt", "paragraph", "key", None, Fragments[4], None),
     UploadRequest(TRUE, "b.txt", "paragraph", "key", None, FeeText, None)}

\* the chats that run beside an upload: no question, a question that is
\* answered, a question the language model raises on
ConcurrentChats ==
    {ChatRequest(" ", "key", None),
     ChatRequest("Why?", "key", None),
     ChatRequest("Why?", "key", "timeout")}

\* upload(), lines 52 to 89: the request arrives and is checked
UploadBegin ==
    /\ upload_frame = NotRunning
    /\ \E req \in ConcurrentUploads :
         /\ request' = req
         /\ \E rejection \in {UploadRejection(req)} :
              IF rejection # NoResponse
              THEN response' = rejection /\ UNCHANGED upload_frame
              ELSE /\ upload_frame' = [pc |-> "store_text", request |-> req]
                   /\ UNCHANGED response
    /\ UNCHANGED <<engine_state, max_chunk_size, documents, results, web_state, chat_frame>>

\* upload(), line 91: _current_doc_text = text
UploadStoreText ==
    /\ upload_frame.pc = "store_text"
    /\ _current_doc_text' = upload_frame.request.text
    /\ upload_frame' = [upload_frame EXCEPT !.pc = "clear_history"]
    /\ UNCHANGED <<engine_state, max_chunk_size, documents, results, request, response,
                   _current_result, _current_filename, _current_llm_summary,
                   _chat_history, chat_frame>>

\* upload(), line 92: _chat_history = []
UploadClearHistory ==
    /\ upload_frame.pc = "clear_history"
    /\ _chat_history' = <<>>
    /\ upload_frame' = [upload_frame EXCEPT !.pc = "compress"]
    /\ UNCHANGED <<engine_state, max_chunk_size, documents, results, request, response,
                   _current_result, _current_filename, _current_llm_summary,
                   _current_doc_text, chat_frame>>

\* upload(), lines 95 to 98: the rule engine runs or raises
UploadCompress ==
    /\ upload_frame.pc = "compress"
    /\ \E req \in {upload_frame.request} :
         IF req.compress_error # None
         THEN /\ response' = ErrorResponse(500, "Compression failed: "
                                                    \o req.compress_error)
              /\ upload_frame' = NotRunning
              /\ UNCHANGED engine_state
         ELSE \E run \in {process(req.chunk_strategy, req.text)} :
                 /\ chunk_strategy' = req.chunk_strategy
                 /\ document' = req.text
                 /\ chunks' = run.chunks
                 /\ all_items' = run.all_items
                 /\ result' = run.result
                 /\ pc' = "done"
                 /\ upload_frame' = [pc |-> "summarize", request |-> req,
                                     result |-> run.result]
                 /\ UNCHANGED response
    /\ UNCHANGED <<max_chunk_size, documents, results, request, web_state, chat_frame>>

\* upload(), lines 101 to 114: the summarization, _current_llm_summary is set
UploadSummarize ==
    /\ upload_frame.pc = "summarize"
    /\ \E body \in {WithLlmSummary(upload_frame.result, upload_frame.request)} :
         /\ _current_llm_summary' = body.llm_summary
         /\ upload_frame' = [upload_frame EXCEPT !.pc = "store_result", !.result = body]
    /\ UNCHANGED <<engine_state, max_chunk_size, documents, results, request, response,
                   _current_result, _current_filename, _current_doc_text,
                   _chat_history, chat_frame>>

\* upload(), lines 115 to 117: the result and the filename are stored, the
\* response is sent
UploadEnd ==
    /\ upload_frame.pc = "store_result"
    /\ _current_result' = upload_frame.result
    /\ _current_filename' = Strip(upload_frame.request.filename)
    /\ response' = [status |-> 200, body |-> upload_frame.result]
    /\ upload_frame' = NotRunning
    /\ UNCHANGED <<engine_state, max_chunk_size, documents, results, request,
                   _current_doc_text, _current_llm_summary, _chat_history, chat_frame>>

\* chat(), lines 130 to 146: the request arrives and is checked; a session is
\* followed until its history holds MaxExchanges exchanges
ChatBegin ==
    /\ chat_frame = NotRunning
    /\ \E req \in ConcurrentChats :
         /\ req.llm_error = None => Len(_chat_history) < 2 * MaxExchanges
         /\ request' = req
         /\ \E rejection \in {ChatRejection(req, _current_doc_text, _current_llm_summary)} :
              IF rejection # NoResponse
              THEN response' = rejection /\ UNCHANGED chat_frame
              ELSE /\ chat_frame' = [pc |-> "context", request |-> req]
                   /\ UNCHANGED response
    /\ UNCHANGED <<engine_state, max_chunk_size, documents, results, web_state, upload_frame>>

\* chat(), line 147: the context is read from the globals
ChatReadContext ==
    /\ chat_frame.pc = "context"
    /\ chat_frame' = [pc |-> "llm", request |-> chat_frame.request,
                      context |-> ChatContext(_current_llm_summary, _current_doc_text)]
    /\ UNCHANGED <<engine_state, max_chunk_size, documents, results, request, response,
                   web_state, upload_frame>>

\* chat(), lines 150 to 154 and 161 to 165: the language model answers from
\* the context it was given, or raises
ChatCallLlm ==
    /\ chat_frame.pc = "llm"
    /\ \E req \in {chat_frame.request} :
         IF req.llm_error # None
         THEN /\ response' = [status |-> 200,
                              body |-> [answer |-> "Error: " \o req.llm_error,
                                        document |-> _current_filename]]
              /\ chat_frame' = NotRunning
         ELSE /\ chat_frame' = [pc |-> "append_question", request |-> req,
                                answer |-> chat_with_llm(Strip(req.question),
                                                         chat_frame.context)]
              /\ UNCHANGED response
    /\ UNCHANGED <<engine_state, max_chunk_size, documents, results, request,
                   web_state, upload_frame>>

\* chat(), line 155: the question is appended to the list the global
\* _chat_history names at this moment
ChatAppendQuestion ==
    /\ chat_frame.pc = "append_question"
    /\ _chat_history' = Append(_chat_history,
                               [role |-> "user",
                                content |-> Strip(chat_frame.request.question)])
    /\ chat_frame' = [chat_frame EXCEPT !.pc = "append_answer"]
    /\ UNCHANGED <<engine_state, max_chunk_size, documents, results, request, response,
                   _current_result, _current_filename, _current_doc_text,
                   _current_llm_summary, upload_frame>>

\* chat(), lines 156 to 160: the answer is appended to the list the global
\* _chat_history names at this moment, the response is sent
ChatEnd ==
    /\ chat_frame.pc = "append_answer"
    /\ _chat_history' = Append(_chat_history,
                               [role |-> "assistant", content |-> chat_frame.answer])
    /\ response' = [status |-> 200,
                    body |-> [answer |-> chat_frame.answer,
                              document |-> _current_filename]]
    /\ chat_frame' = NotRunning
    /\ UNCHANGED <<engine_state, max_chunk_size, documents, results, request,
                   _current_result, _current_filename, _current_doc_text,
                   _current_llm_summary, upload_frame>>

\* an upload and a chat handled by two threads
NextConcurrent ==
    \/ UploadBegin \/ UploadStoreText \/ UploadClearHistory
    \/ UploadCompress \/ UploadSummarize \/ UploadEnd
    \/ ChatBegin \/ ChatReadContext \/ ChatCallLlm \/ ChatAppendQuestion \/ ChatEnd

SpecConcurrent == InitUpload /\ [][NextConcurrent]_vars

(***************************************************************************)
(* Properties                                                              *)
(***************************************************************************)

\* C1: for every strategy and every document, the chunks of a run carry the
\* ids chunk_1, chunk_2, ..., chunk_n in order and without gaps, and
\* metadata.total_chunks is n.  The paragraph strategy numbers the pieces of
\* the split before it drops the blank ones, so this does not hold.
C1_SequentialChunkIds ==
    pc = "done" =>
        /\ \A k \in 1..Len(chunks) : chunks[k].chunk_id = ChunkId(k)
        /\ result.metadata.total_chunks = Len(chunks)

\* C2: process("") returns, under every strategy name, a result whose
\* metadata has total_chunks = 0, total_extracted_items = 0 and
\* compression_ratio = 0.0.
C2_EmptyDocument ==
    (pc = "done" /\ document = "") =>
        /\ chunks = <<>>
        /\ all_items = <<>>
        /\ result.metadata.total_chunks = 0
        /\ result.metadata.total_extracted_items = 0
        /\ result.metadata.compression_ratio = 0

C2_Witness ==
    /\ pc = "done"
    /\ document = ""
    /\ chunk_strategy = "fixed_size"
    /\ result.metadata.total_chunks = 0
    /\ result.metadata.compression_ratio = 0

C4_SummaryBounds ==
    pc = "done" =>
        /\ Len(result.executive_compressed_summary) <= 10
        /\ \A content_type \in Range(ContentTypes) :
               Cardinality({k \in 1..Len(result.executive_compressed_summary) :
                   result.executive_compressed_summary[k].priority = content_type}) <= 3

\* more than 3 distinct statements in each of the six types: the summary is cut
\* to 10, three of them risks
C4_Witness ==
    /\ pc = "done"
    /\ Len(all_items) > 10
    /\ Cardinality({i \in 1..Len(all_items) : all_items[i].content_type = RISK_PENALTY}) > 3
    /\ Cardinality({i \in 1..Len(all_items) : all_items[i].content_type = OBJECTIVE_FACT}) > 3
    /\ Len(result.executive_compressed_summary) = 10
    /\ Cardinality({k \in 1..Len(result.executive_compressed_summary) :
           result.executive_compressed_summary[k].priority = RISK_PENALTY}) = 3

\* C5 as stated: the two fee statements give exactly one contradiction record,
\* the fee and the deadline statements give none.  The fee statements share
\* three words (the, fee, is) and the test asks for more than three, so the
\* first half does not hold.
C5_FeePairContradicts ==
    pc = "done" /\ Len(all_items) = 2 =>
        /\ (all_items[1].statement = Fee100 /\ all_items[2].statement = Fee200)
               => Len(result.contradictions) = 1
        /\ (all_items[1].statement = Fee100 /\ all_items[2].statement = DeadlineJan1)
               => Len(result.contradictions) = 0

\* C5: the two fee statements, which share three words, give no contradiction
\* record; the two annual fee statements, which share four, give exactly one,
\* naming both; the fee and the deadline statements give none.
C5_OverlapAboveThree ==
    pc = "done" /\ Len(all_items) = 2 =>
        /\ (all_items[1].statement = Fee100 /\ all_items[2].statement = Fee200)
               => result.contradictions = <<>>
        /\ (all_items[1].statement = AnnualFee100 /\ all_items[2].statement = AnnualFee200)
               => /\ Len(result.contradictions) = 1
                  /\ result.contradictions[1].statement_1 = AnnualFee100
                  /\ result.contradictions[1].statement_2 = AnnualFee200
        /\ (all_items[1].statement = Fee100 /\ all_items[2].statement = DeadlineJan1)
               => result.contradictions = <<>>

C5_Witness ==
    /\ pc = "done"
    /\ Len(all_items) = 2
    /\ all_items[1].statement = Fee100
    /\ all_items[2].statement = Fee200
    /\ StatementWords(Fee100) \cap StatementWords(Fee200) = {"the", "fee", "is"}
    /\ result.contradictions = <<>>

\* C6: every entry of the executive summary and of the five report categories
\* has a non-empty statement and at least one source chunk.
C6_EntriesTraceable ==
    pc = "done" =>
        \A entry \in Range(result.executive_compressed_summary \o result.key_facts
                           \o result.numbers_and_limits \o result.dates_and_timelines
                           \o result.exceptions_and_conditions
                           \o result.risks_and_constraints) :
            /\ entry.statement # ""
            /\ Len(entry.source_chunks) >= 1

\* a run of several chunks that fills all six lists
C6_Witness ==
    /\ pc = "done"
    /\ Len(chunks) >= 2
    /\ result.executive_compressed_summary # <<>>
    /\ result.key_facts # <<>>
    /\ result.numbers_and_limits # <<>>
    /\ result.dates_and_timelines # <<>>
    /\ result.exceptions_and_conditions # <<>>
    /\ result.risks_and_constraints # <<>>

\* C7: the keys of the traceability map are stmt_1..stmt_N, N the number of
\* entries of the six mapped categories; numbered across the categories in
\* their fixed order, each key maps to its entry's source_chunks, so stmt_1 is
\* the first summary entry when there is one.
C7_TraceabilityMap ==
    pc = "done" =>
        LET entries == result.executive_compressed_summary \o result.key_facts
                       \o result.numbers_and_limits \o result.dates_and_timelines
                       \o result.exceptions_and_conditions \o result.risks_and_constraints
        IN  /\ DOMAIN result.traceability_map = {StmtId(n) : n \in 1..Len(entries)}
            /\ \A n \in 1..Len(entries) :
                   result.traceability_map[StmtId(n)] = entries[n].source_chunks
            /\ result.executive_compressed_summary # <<>> =>
                   result.traceability_map["stmt_1"]
                       = result.executive_compressed_summary[1].source_chunks

\* a summary and at least three categories with entries, from different chunks
C7_Witness ==
    /\ pc = "done"
    /\ result.executive_compressed_summary # <<>>
    /\ result.key_facts # <<>>
    /\ result.numbers_and_limits # <<>>
    /\ result.risks_and_constraints # <<>>
    /\ result.risks_and_constraints[1].source_chunks # result.numbers_and_limits[1].source_chunks
    /\ Cardinality(DOMAIN result.traceability_map)
           = Len(result.executive_compressed_summary) + Len(result.key_facts)
             + Len(result.numbers_and_limits) + Len(result.dates_and_timelines)
             + Len(result.exceptions_and_conditions) + Len(result.risks_and_constraints)

\* C8 as stated: for the end-to-end document numbers_and_limits has two entries,
\* quoting "$100,000" and "5%", and the price sentence yields a NUMBER_LIMIT
\* item.  The number patterns want the unit after the digits and a word
\* boundary after the unit, so neither holds.
C8_DollarAndPercentExtracted ==
    pc = "done" /\ chunk_strategy = "paragraph" =>
        /\ document = EndToEndDocument =>
               /\ Len(result.numbers_and_limits) = 2
               /\ {entry.quote : entry \in Range(result.numbers_and_limits)}
                      = {"$100,000", "5%"}
        /\ document = PriceDocument =>
               \E item \in Range(all_items) : item.content_type = NUMBER_LIMIT

\* C9 as stated: the end-to-end document has exactly one entry in
\* exceptions_and_conditions.  No exception pattern matches a bare "if".
C9_IfLateExtracted ==
    (pc = "done" /\ chunk_strategy = "paragraph" /\ document = EndToEndDocument) =>
        Len(result.exceptions_and_conditions) = 1

\* C9: the end-to-end document has no entry in exceptions_and_conditions; with
\* "only if late" in place of "if late" it has exactly one, quoting "only if".
C9_OnlyIfExtracted ==
    pc = "done" /\ chunk_strategy = "paragraph" =>
        /\ document = EndToEndDocument => result.exceptions_and_conditions = <<>>
        /\ document = OnlyIfDocument =>
               /\ Len(result.exceptions_and_conditions) = 1
               /\ result.exceptions_and_conditions[1].quote = "only if"

C9_Witness ==
    /\ pc = "done"
    /\ chunk_strategy = "paragraph"
    /\ document = EndToEndDocument
    /\ Len(chunks) = 1
    /\ result.exceptions_and_conditions = <<>>
    /\ result.dates_and_timelines # <<>>

\* C10: under a strategy name that is none of the four, the run returns, and
\* its chunks are those of the paragraph strategy on the same document.
C10_UnknownStrategyIsParagraph ==
    (pc = "done" /\ chunk_strategy \notin Strategies) =>
        /\ chunks = _chunk_by_paragraph(document)
        /\ result.metadata.total_chunks = Len(_chunk_by_paragraph(document))

\* a document the paragraph and the sentence strategies cut differently
C10_Witness ==
    /\ pc = "done"
    /\ chunk_strategy \notin Strategies
    /\ Len(chunks) >= 2
    /\ chunks # _chunk_by_sentence(document)

C12_ChunkIdsExist ==
    pc = "done" =>
        LET ids == {chunks[k].chunk_id : k \in 1..Len(chunks)}
            AllIn(source_chunks) ==
                \A m \in 1..Len(source_chunks) : source_chunks[m] \in ids
            Sources(entries) ==
                \A n \in 1..Len(entries) : AllIn(entries[n].source_chunks)
        IN  /\ Sources(result.executive_compressed_summary)
            /\ Sources(result.key_facts)
            /\ Sources(result.numbers_and_limits)
            /\ Sources(result.dates_and_timelines)
            /\ Sources(result.exceptions_and_conditions)
            /\ Sources(result.risks_and_constraints)
            /\ \A key \in DOMAIN result.traceability_map :
                   AllIn(result.traceability_map[key])
            /\ \A n \in 1..Len(result.contradictions) :
                   /\ result.contradictions[n].source_chunk_1 \in ids
                   /\ result.contradictions[n].source_chunk_2 \in ids
            /\ \A n \in 1..Len(result.explainability) :
                   result.explainability[n].source_chunk \in ids

\* several chunks, entries from two of them, a contradiction record and an
\* exclusion record
C12_Witness ==
    /\ pc = "done"
    /\ Len(chunks) >= 3
    /\ Len(result.numbers_and_limits) >= 2
    /\ result.numbers_and_limits[1].source_chunks
           # result.numbers_and_limits[2].source_chunks
    /\ DOMAIN result.traceability_map # {}
    /\ result.contradictions # <<>>
    /\ \E n \in 1..Len(result.explainability) :
          result.explainability[n].content_type = "excluded"

\* C13: when an upload reaches the summarization and the summarization fails
\* (it raises, or there is no API key), the response is still the success
\* response: it carries every key of the rule engine's result for the
\* uploaded text, llm_summary is null, llm_summary_error is present, and the
\* same result is stored as the current result.
C13_LlmFailureKeepsResult ==
    (/\ response.status # 0
     /\ UploadRejection(request) = NoResponse
     /\ request.compress_error = None
     /\ (request.api_key = "" \/ request.llm_error # None))
    => LET pipeline == process(request.chunk_strategy, request.text).result
       IN  /\ response.status = 200
           /\ \A key \in DOMAIN pipeline : response.body[key] = pipeline[key]
           /\ response.body.llm_summary = None
           /\ "llm_summary_error" \in DOMAIN response.body
           /\ response.body.llm_summary_error # None
           /\ _current_result = response.body
           /\ _current_llm_summary = None

\* the summarization raised on a text with extracted items
C13_Witness ==
    /\ response.status = 200
    /\ request.api_key = "key"
    /\ request.llm_error = "quota exceeded"
    /\ response.body.llm_summary_error = "quota exceeded"
    /\ response.body.metadata.total_extracted_items > 0
    /\ _current_filename = "B.PDF"

\* C14: a request with no file part, with an empty filename, with an
\* extension other than .txt, .pdf, .docx, .doc, whose text extraction raises,
\* or whose extracted text is empty or blank, is answered with an error
\* response (status 400 or 500, a body holding only "error"), and handling it
\* does not run the rule engine: the engine's strategy, document, chunks,
\* items and result stay what they were.
C14_RejectedUploads ==
    [][LET req == request'
           unreadable ==
               \/ ~req.has_file
               \/ Strip(req.filename) = ""
               \/ Lower(splitext(Strip(req.filename))) \notin SupportedExtensions
               \/ req.read_raises # None
               \/ Strip(req.text) = ""
       IN  unreadable =>
               /\ response'.status \in {400, 500}
               /\ DOMAIN response'.body = {"error"}
               /\ UNCHANGED <<chunk_strategy, document, chunks, all_items, result, pc>>
      ]_vars

\* a file that cannot be read is turned away after an upload that succeeded
C14_Witness ==
    /\ response.status = 500
    /\ request.read_raises = "Exception"
    /\ pc = "done"
    /\ _current_filename = "a.txt"
    /\ document = _current_doc_text

\* C15: under the paragraph, sentence and section strategies (an unknown
\* strategy name chunks by paragraph) the first chunk starts at 0, every chunk
\* ends at its start plus the length of its content, and every later chunk
\* starts where the chunk before it ended.
C15_CumulativeOffsets ==
    (pc = "done" /\ chunk_strategy # "fixed_size") =>
        \A k \in 1..Len(chunks) :
            /\ chunks[k].start_pos = IF k = 1 THEN 0 ELSE chunks[k - 1].end_pos
            /\ chunks[k].end_pos = chunks[k].start_pos + Len(chunks[k].content)

\* two sections with the separator between them left out of the offsets
C15_Witness ==
    /\ pc = "done"
    /\ chunk_strategy = "section"
    /\ Len(chunks) = 2
    /\ chunks[2].start_pos = Len(chunks[1].content)
    /\ chunks[2].end_pos < Len(document)

\* C16: for every document and every max_chunk_size >= 1 the fixed_size loop
\* returns; every pass moves the cursor forward; the first chunk starts at 0,
\* every chunk starts where the one before it ended and spans at most
\* max_chunk_size characters; and when the loop has returned the last chunk
\* ends at len(document) (no chunk at all for the empty document).
C16_FixedSizeConsumes ==
    /\ (pc = "ready") ~> (pc = "done")
    /\ [][chunks' # chunks =>
             /\ current_pos' > current_pos
             /\ chunks'[Len(chunks')].start_pos = current_pos]_vars
    /\ [](\A k \in 1..Len(chunks) :
             /\ chunks[k].start_pos = IF k = 1 THEN 0 ELSE chunks[k - 1].end_pos
             /\ chunks[k].end_pos - chunks[k].start_pos <= max_chunk_size
             /\ chunks[k].end_pos > chunks[k].start_pos)
    /\ [](pc = "done" => current_pos = Len(document))
    /\ [](pc = "done" => (chunks = <<>> <=> document = ""))

\* the loop returned after two chunks, the first cut short of its window
C16_Witness ==
    /\ pc = "done"
    /\ Len(chunks) = 2
    /\ max_chunk_size = 5
    /\ chunks[1].end_pos = 4
    /\ chunks[2].end_pos = Len(document)
    /\ Len(document) = 5

C18_SummaryOrder ==
    pc = "done" =>
        LET order == <<RISK_PENALTY, COMPLIANCE_REQUIREMENT, NUMBER_LIMIT,
                       DATE_TIMELINE, EXCEPTION_CONDITION, OBJECTIVE_FACT>>
            summary == result.executive_compressed_summary
            Holds(deduplicated) ==
                LET bucket(k) == deduplicated[order[k]]
                    \* the items of bucket k that a stable descending sort puts
                    \* before item i
                    Before(k, i) ==
                        {j \in 1..Len(bucket(k)) :
                            \/ bucket(k)[j].confidence > bucket(k)[i].confidence
                            \/ /\ bucket(k)[j].confidence = bucket(k)[i].confidence
                               /\ j < i}
                    \* the number of entries the types before type k contribute
                    Offset(k) ==
                        Cardinality({<<j, n>> \in (1..(k - 1)) \X (1..3) :
                                        n <= Len(bucket(j))})
                IN  /\ Len(summary) = IF Offset(7) < 10 THEN Offset(7) ELSE 10
                    /\ \A k \in 1..6 : \A i \in 1..Len(bucket(k)) :
                          LET place == Offset(k) + Cardinality(Before(k, i)) + 1
                          IN  (Cardinality(Before(k, i)) < 3 /\ place <= 10) =>
                                  summary[place] =
                                      [statement |-> bucket(k)[i].statement,
                                       source_chunks |-> <<bucket(k)[i].chunk_id>>,
                                       priority |-> order[k]]
                    /\ \A m \in 1..Len(summary) : \A n \in m..Len(summary) :
                          \E a \in 1..6 : \E b \in a..6 :
                              summary[m].priority = order[a] /\ summary[n].priority = order[b]
        IN  Holds(_deduplicate_items(_group_by_type(all_items)))

\* four items of each type, the second and fourth with the higher confidence:
\* the summary is cut at ten and opens with the second risk item
C18_Witness ==
    /\ pc = "done"
    /\ Len(all_items) = 24
    /\ Len(result.executive_compressed_summary) = 10
    /\ result.executive_compressed_summary[1].priority = RISK_PENALTY
    /\ result.executive_compressed_summary[1].statement
           = result.risks_and_constraints[2].statement
    /\ result.executive_compressed_summary[2].statement
           = result.risks_and_constraints[4].statement
    /\ result.executive_compressed_summary[3].statement
           = result.risks_and_constraints[1].statement
    /\ result.executive_compressed_summary[10].priority = DATE_TIMELINE

C20_QuoteInsideStatement ==
    pc = "done" =>
        \A n \in 1..Len(all_items) :
            LET item == all_items[n]
            IN  item.content_type # OBJECTIVE_FACT =>
                    \E k \in 0..(Len(item.statement) - Len(item.quote)) :
                        Slice(item.statement, k, k + Len(item.quote)) = item.quote

(***************************************************************************)
(* C21                                                                     *)
(***************************************************************************)
\* the five item lists of a report
ReportCategories(r) ==
    <<r.key_facts, r.numbers_and_limits, r.dates_and_timelines,
      r.exceptions_and_conditions, r.risks_and_constraints>>

\* C21 as stated: in each of the five item lists of the report, the merged
\* risks_and_constraints included, no two entries have the same normalized
\* statement.
C21_NoDuplicateStatements ==
    pc = "done" =>
        \A c \in 1..5 :
            LET category == ReportCategories(result)[c]
            IN  \A i, j \in 1..Len(category) :
                    i < j => _normalize_statement(category[i].statement)
                                 # _normalize_statement(category[j].statement)

\* C21 amended: in each of the five item lists no two entries of the same
\* content type have the same normalized statement, so the four single-type
\* lists hold no statement twice; risks_and_constraints holds the risk entries
\* first, then the compliance entries, and a statement occurs there at most
\* once as a risk and once as a compliance requirement.
C21_DeduplicatedPerType ==
    pc = "done" =>
        /\ \A c \in 1..5 :
               LET category == ReportCategories(result)[c]
                   normalized == [n \in 1..Len(category) |->
                                     _normalize_statement(category[n].statement)] @@ <<>>
               IN  \A i, j \in 1..Len(category) :
                       (i < j /\ normalized[i] = normalized[j])
                           => /\ c = 5
                              /\ category[i].content_type = RISK_PENALTY
                              /\ category[j].content_type = COMPLIANCE_REQUIREMENT
        /\ \A i, j \in 1..Len(result.risks_and_constraints) :
               (i < j /\ result.risks_and_constraints[j].content_type = RISK_PENALTY)
                   => result.risks_and_constraints[i].content_type = RISK_PENALTY

\* a document that says "It shall comply." twice: four raw items, the risk and
\* the compliance requirement each kept once, with the same statement
C21_Witness ==
    /\ pc = "done"
    /\ Len(OfType(all_items, RISK_PENALTY)) = 2
    /\ Len(OfType(all_items, COMPLIANCE_REQUIREMENT)) = 2
    /\ Len(result.risks_and_constraints) = 2
    /\ result.risks_and_constraints[1].statement = "It shall comply."
    /\ result.risks_and_constraints[1].content_type = RISK_PENALTY
    /\ result.risks_and_constraints[2].statement = "It shall comply."
    /\ result.risks_and_constraints[2].content_type = COMPLIANCE_REQUIREMENT

(***************************************************************************)
(* C22                                                                     *)
(***************************************************************************)
\* the place of the chunk with this id in chunks, 0 when there is none
ChunkIndex(chunk_id) ==
    LET at == {c \in 1..Len(chunks) : chunks[c].chunk_id = chunk_id}
    IN  IF at = {} THEN 0 ELSE SetMin(at)

\* C22: the explainability trail holds one inclusion record per raw item, in
\* item order, each with a reason and no removal reason; then exclusion
\* records, which come from the first 5 chunks only, at most one per chunk and
\* in chunk order, each without a reason and with the fixed removal reason;
\* so the trail has between total_extracted_items and total_extracted_items + 5
\* records.
C22_ExplainabilityTrail ==
    pc = "done" =>
        LET trail == result.explainability
            n     == Len(all_items)
        IN  /\ n = result.metadata.total_extracted_items
            /\ Len(trail) >= n
            /\ Len(trail) <= n + 5
            /\ \A k \in 1..n :
                   /\ trail[k].included_because # None
                   /\ trail[k].removed_content_reason = None
                   /\ trail[k].source_chunk = all_items[k].chunk_id
                   /\ trail[k].content_type = all_items[k].content_type
            /\ \A k \in (n + 1)..Len(trail) :
                   /\ trail[k].included_because = None
                   /\ trail[k].removed_content_reason =
                          "Generic narrative or background content without decision-critical information"
                   /\ trail[k].content_type = "excluded"
                   /\ ChunkIndex(trail[k].source_chunk) \in 1..5
                   /\ _identify_generic_content(chunks[ChunkIndex(trail[k].source_chunk)]) # ""
            /\ \A k, l \in (n + 1)..Len(trail) :
                   k < l => ChunkIndex(trail[k].source_chunk)
                                < ChunkIndex(trail[l].source_chunk)
            /\ \A c \in 1..Len(chunks) :
                   (c <= 5 /\ _identify_generic_content(chunks[c]) # "")
                       => \E k \in (n + 1)..Len(trail) :
                              trail[k].source_chunk = chunks[c].chunk_id

\* six chunks: a duty, then five of generic narrative with two generic
\* sentences each; the sixth chunk is generic and has no record
C22_Witness ==
    /\ pc = "done"
    /\ Len(chunks) = 6
    /\ Len(all_items) = 2
    /\ _identify_generic_content(chunks[6]) # ""
    /\ Len(result.explainability) = 6
    /\ result.explainability[1].source_chunk = "chunk_1"
    /\ result.explainability[3].source_chunk = "chunk_2"
    /\ result.explainability[6].source_chunk = "chunk_5"

(***************************************************************************)
(* C23                                                                     *)
(***************************************************************************)
\* C23 as stated: the statement of every inclusion record is at most 100
\* characters long.
C23_AtMostHundred ==
    pc = "done" =>
        \A k \in 1..Len(all_items) : Len(result.explainability[k].statement) <= 100

\* C23 amended: the statement of an inclusion record is the item's statement
\* when that has at most 100 characters, and otherwise its first 100
\* characters followed by "...", so its length never exceeds 103.
C23_TruncatedWithEllipsis ==
    pc = "done" =>
        \A k \in 1..Len(all_items) :
            LET statement == all_items[k].statement
                shown     == result.explainability[k].statement
            IN  /\ Len(statement) <= 100 => shown = statement
                /\ Len(statement) > 100 =>
                       /\ Slice(shown, 0, 100) = Slice(statement, 0, 100)
                       /\ Slice(shown, 100, Len(shown)) = "..."
                /\ Len(shown) <= 103

\* the sentence of 113 characters is shown with 103
C23_Witness ==
    /\ pc = "done"
    /\ document = LongDocument
    /\ Len(all_items) = 1
    /\ Len(all_items[1].statement) = 113
    /\ Len(result.explainability[1].statement) = 103

(***************************************************************************)
(* C24                                                                     *)
(***************************************************************************)
\* the header test of _chunk_by_section, which reads the trimmed line
IsHeaderLine(line) == MatchesAtStart(header_pattern, Strip(line), FALSE)

\* the non-blank lines of a text, each trimmed, in order
NonBlankLines(text) ==
    SelectSeq([k \in 1..Len(SplitChar(text, "\n")) |-> Strip(SplitChar(text, "\n")[k])],
              LAMBDA line : line # "")

\* C24: under the section strategy a header line is always the first line of
\* its chunk (chunk content is trimmed, so that is its first non-blank line),
\* every chunk after the first starts at a header, so the lines between two
\* headers form one chunk, and the chunks in order hold every non-blank line
\* of the document exactly once and in the original order, the lines after
\* the last header included. Lines are compared trimmed, as the header test
\* reads them.
C24_SectionChunks ==
    (pc = "done" /\ chunk_strategy = "section") =>
        /\ NonBlankLines(Join([c \in 1..Len(chunks) |-> chunks[c].content], "\n"))
               = NonBlankLines(document)
        /\ \A c \in 1..Len(chunks) :
               LET lines == SplitChar(chunks[c].content, "\n")
               IN  /\ \A k \in 2..Len(lines) : ~IsHeaderLine(lines[k])
                   /\ c > 1 => IsHeaderLine(lines[1])
                   /\ lines[1] # ""

\* text, a header with text under it, another header: three chunks, the last
\* one flushed at the end of the input
C24_Witness ==
    /\ pc = "done"
    /\ chunk_strategy = "section"
    /\ document = " b \n# A\n\n b \n# A"
    /\ Len(chunks) = 3
    /\ chunks[1].content = "b"
    /\ chunks[2].content = "# A\n\n b"
    /\ chunks[3].content = "# A"

(***************************************************************************)
(* C25                                                                     *)
(***************************************************************************)
\* C25: an upload that is answered with an error response leaves
\* _current_result, _current_filename, _current_doc_text,
\* _current_llm_summary and _chat_history as they were before the request
\* (_current_result is read only once a filename is stored with it).
C25_FailedUploadKeepsSession ==
    [][("has_file" \in DOMAIN request' /\ response'.status # 200)
           => /\ _current_doc_text' = _current_doc_text
              /\ _chat_history' = _chat_history
              /\ _current_filename' = _current_filename
              /\ _current_llm_summary' = _current_llm_summary
              /\ _current_filename # None => _current_result' = _current_result
      ]_<<_current_doc_text, _chat_history, _current_filename, _current_llm_summary>>

(***************************************************************************)
(* C26                                                                     *)
(***************************************************************************)
\* C26: with requests handled one at a time, _chat_history always has even
\* length with user messages at the odd places and assistant messages at the
\* even ones; a chat that is answered by the language model appends the
\* question and then the answer it returns, a chat that is turned away (no
\* question, no API key, no document) or whose language model call raises
\* leaves the history as it was, an upload whose text was extracted empties
\* it, and any other upload leaves it as it was.
C26_ChatHistory ==
    /\ [](/\ Len(_chat_history) % 2 = 0
          /\ \A i \in 1..Len(_chat_history) :
                 _chat_history[i].role = IF i % 2 = 1 THEN "user" ELSE "assistant")
    /\ [][LET req == request'
          IN  IF "question" \in DOMAIN req
              THEN IF /\ Strip(req.question) # ""
                      /\ req.api_key # ""
                      /\ (_current_doc_text # None \/ _current_llm_summary # None)
                      /\ req.llm_error = None
                   THEN _chat_history' = _chat_history
                            \o <<[role |-> "user", content |-> Strip(req.question)],
                                  [role |-> "assistant",
                                   content |-> response'.body.answer]>>
                   ELSE UNCHANGED _chat_history
              ELSE IF ~req.has_file
                      \/ Strip(req.filename) = ""
                      \/ Lower(splitext(Strip(req.filename))) \notin SupportedExtensions
                      \/ req.read_raises # None
                      \/ Strip(req.text) = ""
                   THEN UNCHANGED _chat_history
                   ELSE _chat_history' = <<>>
         ]_vars

\* two exchanges since the upload, then a chat the language model raised on
C26_Witness ==
    /\ Len(_chat_history) = 4
    /\ _chat_history[1].content = "Why?"
    /\ _chat_history[3].content = "How?"
    /\ response.status = 200
    /\ "question" \in DOMAIN request
    /\ request.llm_error = "timeout"
    /\ _current_filename = "a.txt"

\* the text of the document an answer was computed from: what follows the
\* separator in the context the language model was given
RECURSIVE DocumentOfAnswer(_, _)
DocumentOfAnswer(content, i) ==
    IF i + Len(ContextSeparator) > Len(content) THEN None
    ELSE IF Slice(content, i, i + Len(ContextSeparator)) = ContextSeparator
    THEN Slice(content, i + Len(ContextSeparator), Len(content))
    ELSE DocumentOfAnswer(content, i + 1)

\* C27: when an upload and a chat run concurrently, the history of the newly
\* uploaded document (the list upload() made for it, from the moment it is
\* made) never holds an answer that was computed from the text of the
\* document loaded before.
C27_NoAnswerOfPreviousDocument ==
    upload_frame.pc \notin {"clear_history"} =>
        \A i \in 1..Len(_chat_history) :
            _chat_history[i].role = "assistant" =>
                DocumentOfAnswer(_chat_history[i].content, 0) = _current_doc_text

\* the number of entries in the five item lists of a report
ReportEntries(r) ==
    Len(r.key_facts) + Len(r.numbers_and_limits) + Len(r.dates_and_timelines)
        + Len(r.exceptions_and_conditions) + Len(r.risks_and_constraints)

\* C28: in every result of process() the five item lists hold together at
\* most metadata.total_extracted_items entries, the number of raw items
\* before deduplication.
C28_EntriesWithinExtractedItems ==
    pc = "done" =>
        /\ result.metadata.total_extracted_items = Len(all_items)
        /\ ReportEntries(result) <= result.metadata.total_extracted_items

\* a run in which deduplication dropped an item and the report still has entries
C28_Witness ==
    /\ pc = "done"
    /\ ReportEntries(result) > 0
    /\ ReportEntries(result) < result.metadata.total_extracted_items
    /\ \E i, j \in 1..Len(all_items) :
          /\ i < j
          /\ all_items[i].content_type = all_items[j].content_type
          /\ _normalize_statement(all_items[i].statement)
                = _normalize_statement(all_items[j].statement)

\* the four item lists that hold the items of a single content type
SingleTypeCategories(r) ==
    <<r.key_facts, r.numbers_and_limits, r.dates_and_timelines,
      r.exceptions_and_conditions>>

\* C29: in each of key_facts, numbers_and_limits, dates_and_timelines and
\* exceptions_and_conditions the entries keep document order: an entry never
\* comes from a chunk that lies before the chunk of an entry listed earlier.
C29_EntriesInDocumentOrder ==
    pc = "done" =>
        \A c \in 1..4 :
            LET category == SingleTypeCategories(result)[c]
            IN  \A i, j \in 1..Len(category) :
                    i < j =>
                        /\ ChunkIndex(category[i].source_chunks[1]) >= 1
                        /\ ChunkIndex(category[i].source_chunks[1])
                              <= ChunkIndex(category[j].source_chunks[1])

\* a run with a list whose entries come from different chunks
C29_Witness ==
    /\ pc = "done"
    /\ Len(chunks) >= 3
    /\ \E c \in 1..4 :
          LET category == SingleTypeCategories(result)[c]
          IN  \E i, j \in 1..Len(category) :
                  /\ i < j
                  /\ ChunkIndex(category[i].source_chunks[1])
                        < ChunkIndex(category[j].source_chunks[1])

\* C30: under every strategy every chunk of chunk_document has non-empty
\* content; a piece of the document that holds only whitespace is never
\* emitted as a chunk.  The fixed_size strategy trims its windows without
\* dropping the empty ones, so this does not hold.
C30_ChunksHaveContent ==
    pc = "done" => \A k \in 1..Len(chunks) : chunks[k].content # ""

====
